---- MODULE Spec2Model ----
(***************************************************************************)
(* A model of the cloud-browser storage core: the tiered, deduplicating    *)
(* ObjectStorage (store / retrieve / delete / moveTier), the quota gate of *)
(* StorageManager (checkQuota / updateQuotaUsage around createProfile and  *)
(* createSnapshot) and the two-layer CacheManager (get / set / sweep).     *)
(*                                                                         *)
(* Every async method is cut at its awaits: one action per stretch of code *)
(* that runs without yielding to the event loop.  The sequential           *)
(* specifications run one call at a time (every call is awaited before the *)
(* next one is made); the concurrent ones interleave the same steps.       *)
(***************************************************************************)
EXTENDS Integers, Sequences, FiniteSets, TLC

\* ------------------------------------------------------------------ bounds
NumKeys == 2
NumContents == 2
NumProcs == 2
MaxOps == 3
MaxFaults == 1
MaxLocationOps == 4
MaxSize == 24
ProfileLimit == 2
SnapshotLimit == 2
SizeLimit == 2
MaxManagerOps == 4
MaxCacheOps == 4
MaxTime == 3
MaxTierTime == 4
MaxBackups == 2
MaxAutoSaveCalls == 4
MaxAutoSaveRuns == 3
MaxTTL == 2

\* CacheManager's configuration: the default TTL in ticks and the memory
\* budget in bytes.
DefaultTTL == 2
\* The TTL listProfiles and listSnapshots cache their lists with (300000 ms),
\* in ticks.
ListTTL == 2
\* AutoSaveManager's maxAutoSaves (100 as configured), scaled down.
MaxAutoSaves == 1
MaxMemoryBytes == 2
\* What gzip adds around the deflated bytes: a 10-byte header, an 8-byte
\* trailer and the 2 bytes that end the deflate stream.
GzipOverhead == 20

\* --------------------------------------------------------------- constants
Tiers == {"hot", "warm", "cold"}

\* autoTierData's age thresholds (INTERVAL '7 days', INTERVAL '30 days') in
\* ticks of the clock.
HotThreshold == 1
WarmThreshold == 2

KeyNames == <<"a", "b", "c", "d">>
ContentNames == <<"x", "y", "z", "w">>

\* A key is a '/'-separated path, kept as the sequence of its segments.
Keys == {<<KeyNames[i]>> : i \in 1..NumKeys}
Contents == {ContentNames[i] : i \in 1..NumContents}
Procs == 1..NumProcs

\* uuidv4() values, in the order they are drawn.
ProfileIds == <<"p1", "p2", "p3", "p4", "p5", "p6">>
SnapshotIds == <<"s1", "s2", "s3", "s4", "s5", "s6">>
\* createSnapshot's object key, `snapshots/${profileId}/${snapshotId}.zip`
ObjectKey(pid, sid) == <<"snapshots", pid, sid>>
QuotaTypes == {"total_size", "profile_count", "snapshot_count"}

VARIABLES
  files,       \* the tier directories: the paths that exist -> their bytes
  dedupMap,    \* ObjectStorage.deduplicationMap, in insertion order
  savedIndex,  \* dedup_index.json as last written
  held,        \* the locations store returned: logical key -> location
  pc,          \* per caller, the await it is parked at
  call,        \* per caller, the arguments and locals of the call in progress
  lastOp,      \* the call that returned last
  prevOp,      \* the call that returned before it
  opCount,     \* calls made so far
  faults,      \* I/O failures so far
  epoch,       \* writes and unlinks of object files so far
  profiles,    \* the profiles table: the ids of its rows
  snapshots,   \* the snapshots table: its rows
  quotas,      \* the storage_quotas table: quota type -> row
  mcall,       \* per caller, the StorageManager call in progress
  lastM,       \* the StorageManager call that ended last
  nextPid,     \* profile ids drawn so far
  nextSid,     \* snapshot ids drawn so far
  now,         \* Date.now(), in ticks
  memoryCache, \* CacheManager.memoryCache, in insertion order
  dbCache,     \* the cache_entries table: key -> row
  stats,       \* CacheManager.stats
  ccall,       \* per caller, the CacheManager call in progress
  lastC,       \* the CacheManager call that returned last
  live,        \* per key, its last set not yet replaced or deleted
  sweep,       \* where the interval's cleanupExpired is parked
  cacheOps,    \* CacheManager calls made so far
  probe,       \* one store of a payload: its sizes and the result's sizes
  backups,     \* the storage_backups table: id -> row
  archives,    \* per backup, the archiver and the output stream of its run
  metaCache,   \* the cached profile and snapshot lists: cache key -> entry
  autosave     \* the AutoSaveManager and the timers it has set

storeVars == <<files, dedupMap, savedIndex, held, pc, call, lastOp, prevOp, opCount, faults, epoch>>
mgrVars == <<profiles, snapshots, quotas, mcall, lastM, nextPid, nextSid>>
cacheVars == <<now, memoryCache, dbCache, stats, ccall, lastC, live, sweep, cacheOps>>
bgVars == <<probe, backups, archives, metaCache, autosave>>

\* ------------------------------------------------------------ pure helpers

\* getTierDirectory: an unknown tier falls back to the warm directory.
getTierDirectory(tier) ==
  CASE tier = "hot" -> "hot"
    [] tier = "warm" -> "warm"
    [] tier = "cold" -> "cold"
    [] OTHER -> "warm"

\* `${tier}/${key}`
StorageKey(tier, key) == <<tier>> \o key

\* key.includes('/') ? key.split('/').slice(1).join('/') : key
BaseKey(key) == IF Len(key) > 1 THEN Tail(key) ELSE key

\* path.join(tierDir, baseKey)
LocalPath(tier, baseKey) == <<getTierDirectory(tier)>> \o baseKey

\* SHA-256 of the plaintext: one digest per content.
computeHash(content) == [sha |-> content]
NoHash == [sha |-> "none"]

\* Bytes on disk or in flight: the plaintext they encode, the codec layers
\* wrapped around it (outermost first) and whether all of them are there.
NoFile == [content |-> "none", layers |-> <<>>, complete |-> FALSE]
CodecError == [content |-> "error", layers |-> <<>>, complete |-> FALSE]
NotFound == [content |-> "notfound", layers |-> <<>>, complete |-> FALSE]
Plain(content) == [content |-> content, layers |-> <<>>, complete |-> TRUE]

compressData(d) == [d EXCEPT !.layers = <<"gz">> \o @]
Encrypt(d) == [d EXCEPT !.layers = <<"aes">> \o @]

\* gunzip throws on anything that is not a whole gzip stream.
decompressData(d) ==
  IF d.complete /\ d.layers # <<>> /\ Head(d.layers) = "gz"
  THEN [d EXCEPT !.layers = Tail(@)]
  ELSE CodecError

\* decipher.final() throws on anything that is not a whole ciphertext.
Decrypt(d) ==
  IF d.complete /\ d.layers # <<>> /\ Head(d.layers) = "aes"
  THEN [d EXCEPT !.layers = Tail(@)]
  ELSE CodecError

\* store's pipeline: compress if asked, then encrypt if asked.
Encode(content, gz, enc) ==
  LET raw == Plain(content)
      zipped == IF gz THEN compressData(raw) ELSE raw
  IN IF enc THEN Encrypt(zipped) ELSE zipped

\* retrieve's pipeline on the bytes read: decrypt if asked, then decompress
\* if asked.
Decode(d, decompress, decrypt) ==
  LET opened == IF decrypt THEN Decrypt(d) ELSE d
  IN IF opened = CodecError THEN CodecError
     ELSE IF decompress THEN decompressData(opened) ELSE opened

\* The directories as a map from the paths that exist.
FileAt(fs, q) == IF q \in DOMAIN fs THEN fs[q] ELSE NoFile
WriteFile(fs, q, d) == [x \in DOMAIN fs \cup {q} |-> IF x = q THEN d ELSE fs[x]]
Unlink(fs, q) == [x \in DOMAIN fs \ {q} |-> fs[x]]

\* What retrieve(key, tier, options) returns against the directories fs.
ReadResult(fs, key, tier, decompress, decrypt) ==
  LET p == LocalPath(tier, BaseKey(key))
  IN IF p \notin DOMAIN fs
     THEN NotFound
     ELSE Decode(fs[p], decompress, decrypt)

\* The insertion-ordered Map: a sequence of [hash, path] entries.
MapHas(m, h) == \E i \in 1..Len(m) : m[i].hash = h
MapGet(m, h) == m[CHOOSE i \in 1..Len(m) : m[i].hash = h].path
MapSet(m, h, p) ==
  IF MapHas(m, h)
  THEN [i \in 1..Len(m) |-> IF m[i].hash = h THEN [hash |-> h, path |-> p] ELSE m[i]]
  ELSE Append(m, [hash |-> h, path |-> p])
RemoveAt(m, i) == SubSeq(m, 1, i - 1) \o SubSeq(m, i + 1, Len(m))
\* The first entry, in iteration order, whose value is the path p (0: none).
FirstWithPath(m, p) ==
  IF \E i \in 1..Len(m) : m[i].path = p
  THEN CHOOSE i \in 1..Len(m) :
         m[i].path = p /\ \A j \in 1..(i - 1) : m[j].path # p
  ELSE 0

\* ------------------------------------------------------------ the records
NoHandle ==
  [path |-> <<>>, tier |-> "none", gz |-> FALSE, enc |-> FALSE, hash |-> NoHash,
   deduplicated |-> FALSE]
Handle(path, tier, gz, enc, hash, deduplicated) ==
  [path |-> path, tier |-> tier, gz |-> gz, enc |-> enc, hash |-> hash,
   deduplicated |-> deduplicated]

NoCall ==
  [op |-> "none", lkey |-> <<>>, key |-> <<>>, content |-> "none", tier |-> "none",
   toTier |-> "none", gz |-> FALSE, enc |-> FALSE, hash |-> NoHash, snap |-> <<>>,
   wrote |-> FALSE, shared |-> {}, fresh |-> FALSE, epoch |-> 0,
   ret |-> "idle", retFail |-> "idle"]

NoOp ==
  [op |-> "none", lkey |-> <<>>, content |-> "none", outcome |-> "none",
   dedup |-> FALSE, storedSize |-> -1, wrote |-> FALSE, data |-> NoFile,
   shared |-> {}, fresh |-> FALSE, quiet |-> FALSE]

\* What the caller reads back through a location it holds: retrieve with the
\* returned key and tier and the decode options that mirror the put options.
ReadVia(fs, h) == ReadResult(fs, h.path, h.tier, h.gz, h.enc)

\* The caller's record of locations, as a map from the keys it has one for.
HeldAt(hs, k) == IF k \in DOMAIN hs THEN hs[k] ELSE NoHandle
SetHeld(hs, k, h) == [x \in DOMAIN hs \cup {k} |-> IF x = k THEN h ELSE hs[x]]
Drop(hs, k) == [x \in DOMAIN hs \ {k} |-> hs[x]]

Log(entry) == /\ prevOp' = lastOp
              /\ lastOp' = entry

\* ------------------------------------------------------- ObjectStorage.store
StoreCall(p, k, c, t, gz, enc) ==
  /\ pc[p] = "idle"
  /\ opCount < MaxOps
  /\ opCount' = opCount + 1
  /\ call' = [call EXCEPT ![p] =
       [NoCall EXCEPT !.op = "store", !.lkey = k, !.key = k, !.content = c,
                      !.tier = t, !.gz = gz, !.enc = enc]]
  /\ pc' = [pc EXCEPT ![p] = "s_hash"]
  /\ UNCHANGED <<files, dedupMap, savedIndex, held, lastOp, prevOp, faults, epoch>>
  /\ UNCHANGED <<mgrVars, cacheVars, bgVars>>

\* After `await this.computeHash(filePath)`: the index lookup and, on a hit,
\* the early return of the existing location.
StoreCheck(p) ==
  /\ pc[p] = "s_hash"
  /\ LET c == call[p]
         h == computeHash(c.content)
     IN IF MapHas(dedupMap, h)
        THEN /\ held' = SetHeld(held, c.lkey,
                   Handle(MapGet(dedupMap, h), c.tier, c.gz, c.enc, h, TRUE))
             /\ Log([NoOp EXCEPT !.op = "store", !.lkey = c.lkey, !.content = c.content,
                                 !.outcome = "ok", !.dedup = TRUE, !.storedSize = 0,
                                 !.wrote = FALSE])
             /\ pc' = [pc EXCEPT ![p] = call[p].ret]
             /\ call' = [call EXCEPT ![p] = NoCall]
        ELSE /\ call' = [call EXCEPT ![p].hash = h]
             /\ pc' = [pc EXCEPT ![p] = "s_write"]
             /\ UNCHANGED <<held, lastOp, prevOp>>
  /\ UNCHANGED <<files, dedupMap, savedIndex, opCount, faults, epoch>>
  /\ UNCHANGED <<mgrVars, cacheVars, bgVars>>

\* fs.writeFile(localCachePath, data) opens the final path for writing and
\* starts filling it: the file is visible before it is whole.
StoreWriteBegin(p) ==
  /\ pc[p] = "s_write"
  /\ LET c == call[p]
         target == LocalPath(c.tier, c.key)
     IN files' = WriteFile(files, target,
                            [Encode(c.content, c.gz, c.enc) EXCEPT !.complete = FALSE])
  /\ call' = [call EXCEPT ![p].wrote = TRUE]
  /\ pc' = [pc EXCEPT ![p] = "s_writing"]
  /\ epoch' = epoch + 1
  /\ UNCHANGED <<dedupMap, savedIndex, held, lastOp, prevOp, opCount, faults>>
  /\ UNCHANGED <<mgrVars, cacheVars, bgVars>>

\* The write completes; store then sets the index entry and starts saving.
StoreWriteEnd(p) ==
  /\ pc[p] = "s_writing"
  /\ LET c == call[p]
         target == LocalPath(c.tier, c.key)
         m == MapSet(dedupMap, c.hash, StorageKey(c.tier, c.key))
     IN /\ files' = WriteFile(files, target, Encode(c.content, c.gz, c.enc))
        /\ dedupMap' = m
        /\ call' = [call EXCEPT ![p].snap = m]
  /\ pc' = [pc EXCEPT ![p] = "s_save"]
  /\ UNCHANGED <<savedIndex, held, lastOp, prevOp, opCount, faults, epoch>>
  /\ UNCHANGED <<mgrVars, cacheVars, bgVars>>

\* The write fails part-way (disk full, I/O error): store throws.
StoreWriteFail(p) ==
  /\ pc[p] = "s_writing"
  /\ faults < MaxFaults
  /\ faults' = faults + 1
  /\ Log([NoOp EXCEPT !.op = "store", !.lkey = call[p].lkey, !.content = call[p].content,
                      !.outcome = "IOError", !.wrote = TRUE])
  /\ pc' = [pc EXCEPT ![p] = call[p].retFail]
  /\ call' = [call EXCEPT ![p] = NoCall]
  /\ UNCHANGED <<files, dedupMap, savedIndex, held, opCount, epoch>>
  /\ UNCHANGED <<mgrVars, cacheVars, bgVars>>

\* saveDeduplicationIndex wrote the snapshot it took; store returns.
StoreSaved(p) ==
  /\ pc[p] = "s_save"
  /\ LET c == call[p]
     IN /\ savedIndex' = c.snap
        /\ held' = SetHeld(held, c.lkey,
                   Handle(StorageKey(c.tier, c.key), c.tier, c.gz, c.enc, c.hash, FALSE))
        /\ Log([NoOp EXCEPT !.op = "store", !.lkey = c.lkey, !.content = c.content,
                            !.outcome = "ok", !.dedup = FALSE, !.wrote = TRUE])
  /\ pc' = [pc EXCEPT ![p] = call[p].ret]
  /\ call' = [call EXCEPT ![p] = NoCall]
  /\ UNCHANGED <<files, dedupMap, opCount, faults, epoch>>
  /\ UNCHANGED <<mgrVars, cacheVars, bgVars>>

\* Writing dedup_index.json fails: store throws after the object was written.
StoreSaveFail(p) ==
  /\ pc[p] = "s_save"
  /\ faults < MaxFaults
  /\ faults' = faults + 1
  /\ Log([NoOp EXCEPT !.op = "store", !.lkey = call[p].lkey, !.content = call[p].content,
                      !.outcome = "IOError", !.wrote = TRUE])
  /\ pc' = [pc EXCEPT ![p] = call[p].retFail]
  /\ call' = [call EXCEPT ![p] = NoCall]
  /\ UNCHANGED <<files, dedupMap, savedIndex, held, opCount, epoch>>
  /\ UNCHANGED <<mgrVars, cacheVars, bgVars>>

\* ---------------------------------------------------- ObjectStorage.retrieve
RetrieveCall(p, k) ==
  /\ pc[p] = "idle"
  /\ opCount < MaxOps
  /\ k \in DOMAIN held
  /\ opCount' = opCount + 1
  /\ call' = [call EXCEPT ![p] =
       [NoCall EXCEPT !.op = "retrieve", !.lkey = k, !.key = held[k].path,
                      !.content = held[k].hash.sha, !.tier = held[k].tier,
                      !.gz = held[k].gz, !.enc = held[k].enc, !.epoch = epoch,
                      !.fresh = (ReadVia(files, held[k]) = Plain(held[k].hash.sha))]]
  /\ pc' = [pc EXCEPT ![p] = "r_read"]
  /\ UNCHANGED <<files, dedupMap, savedIndex, held, lastOp, prevOp, faults, epoch>>
  /\ UNCHANGED <<mgrVars, cacheVars, bgVars>>

\* `await fs.readFile(localCachePath)` and the decode that follows it.
RetrieveRead(p) ==
  /\ pc[p] = "r_read"
  /\ LET c == call[p]
         d == ReadResult(files, c.key, c.tier, c.gz, c.enc)
     IN Log([NoOp EXCEPT !.op = "retrieve", !.lkey = c.lkey, !.content = c.content,
                         !.outcome = IF d = NotFound THEN "NotFound"
                                     ELSE IF d = CodecError THEN "CodecError"
                                     ELSE "ok",
                         !.data = d, !.fresh = c.fresh, !.quiet = (c.epoch = epoch)])
  /\ pc' = [pc EXCEPT ![p] = "idle"]
  /\ call' = [call EXCEPT ![p] = NoCall]
  /\ UNCHANGED <<files, dedupMap, savedIndex, held, opCount, faults, epoch>>
  /\ UNCHANGED <<mgrVars, cacheVars, bgVars>>

\* ------------------------------------------------------ ObjectStorage.delete
\* The logical keys, other than k, whose held location reads back their
\* content now and names the same physical object as k's.
SharersOf(k) ==
  {b \in Keys \ {k} :
     /\ b \in DOMAIN held
     /\ held[b].path = held[k].path
     /\ ReadVia(files, held[b]) = Plain(held[b].hash.sha)}

DeleteCall(p, k) ==
  /\ pc[p] = "idle"
  /\ opCount < MaxOps
  /\ k \in DOMAIN held
  /\ opCount' = opCount + 1
  /\ call' = [call EXCEPT ![p] =
       [NoCall EXCEPT !.op = "delete", !.lkey = k, !.key = held[k].path,
                      !.content = held[k].hash.sha, !.tier = held[k].tier,
                      !.hash = held[k].hash, !.shared = SharersOf(k)]]
  /\ held' = Drop(held, k)
  /\ pc' = [pc EXCEPT ![p] = "d_unlink"]
  /\ UNCHANGED <<files, dedupMap, savedIndex, lastOp, prevOp, faults, epoch>>
  /\ UNCHANGED <<mgrVars, cacheVars, bgVars>>

\* `await fs.unlink(localCachePath)` (errors ignored), then the loop over the
\* index that drops the first entry whose value is the storage key.
DeleteUnlink(p) ==
  /\ pc[p] = "d_unlink"
  /\ LET c == call[p]
         target == LocalPath(c.tier, BaseKey(c.key))
         i == FirstWithPath(dedupMap, c.key)
     IN /\ files' = Unlink(files, target)
        /\ IF i # 0
           THEN /\ dedupMap' = RemoveAt(dedupMap, i)
                /\ call' = [call EXCEPT ![p].snap = RemoveAt(dedupMap, i)]
                /\ pc' = [pc EXCEPT ![p] = "d_save"]
                /\ UNCHANGED <<lastOp, prevOp>>
           ELSE /\ Log([NoOp EXCEPT !.op = "delete", !.lkey = c.lkey, !.content = c.content,
                                    !.outcome = "ok", !.shared = c.shared])
                /\ pc' = [pc EXCEPT ![p] = c.ret]
                /\ call' = [call EXCEPT ![p] = NoCall]
                /\ UNCHANGED dedupMap
  /\ epoch' = epoch + 1
  /\ UNCHANGED <<savedIndex, held, opCount, faults>>
  /\ UNCHANGED <<mgrVars, cacheVars, bgVars>>

\* delete(key, tier) for a location named by the caller, whether or not a
\* store returned it: a repeated delete, a delete after a failed store.
DeleteLocationCall(p, key, t) ==
  /\ pc[p] = "idle"
  /\ opCount < MaxLocationOps
  /\ opCount' = opCount + 1
  /\ call' = [call EXCEPT ![p] =
       [NoCall EXCEPT !.op = "delete", !.lkey = BaseKey(key), !.key = key, !.tier = t]]
  /\ held' = IF BaseKey(key) \in DOMAIN held /\ held[BaseKey(key)].path = key
             THEN Drop(held, BaseKey(key))
             ELSE held
  /\ pc' = [pc EXCEPT ![p] = "d_unlink"]
  /\ UNCHANGED <<files, dedupMap, savedIndex, lastOp, prevOp, faults, epoch>>
  /\ UNCHANGED <<mgrVars, cacheVars, bgVars>>

\* fs.unlink fails on a file that is there (EACCES, EBUSY, EIO): the error is
\* ignored like any other and the index loop runs all the same.
DeleteUnlinkFail(p) ==
  /\ pc[p] = "d_unlink"
  /\ faults < MaxFaults
  /\ faults' = faults + 1
  /\ LET c == call[p]
         target == LocalPath(c.tier, BaseKey(c.key))
         i == FirstWithPath(dedupMap, c.key)
     IN /\ target \in DOMAIN files
        /\ IF i # 0
           THEN /\ dedupMap' = RemoveAt(dedupMap, i)
                /\ call' = [call EXCEPT ![p].snap = RemoveAt(dedupMap, i)]
                /\ pc' = [pc EXCEPT ![p] = "d_save"]
                /\ UNCHANGED <<lastOp, prevOp>>
           ELSE /\ Log([NoOp EXCEPT !.op = "delete", !.lkey = c.lkey, !.content = c.content,
                                    !.outcome = "ok", !.shared = c.shared])
                /\ pc' = [pc EXCEPT ![p] = c.ret]
                /\ call' = [call EXCEPT ![p] = NoCall]
                /\ UNCHANGED dedupMap
  /\ UNCHANGED <<files, savedIndex, held, opCount, epoch>>
  /\ UNCHANGED <<mgrVars, cacheVars, bgVars>>

DeleteSaved(p) ==
  /\ pc[p] = "d_save"
  /\ savedIndex' = call[p].snap
  /\ Log([NoOp EXCEPT !.op = "delete", !.lkey = call[p].lkey, !.content = call[p].content,
                      !.outcome = "ok", !.shared = call[p].shared])
  /\ pc' = [pc EXCEPT ![p] = call[p].ret]
  /\ call' = [call EXCEPT ![p] = NoCall]
  /\ UNCHANGED <<files, dedupMap, held, opCount, faults, epoch>>
  /\ UNCHANGED <<mgrVars, cacheVars, bgVars>>

\* ---------------------------------------------------- ObjectStorage.moveTier
MoveCall(p, k, to) ==
  /\ pc[p] = "idle"
  /\ opCount < MaxOps
  /\ k \in DOMAIN held
  /\ to # held[k].tier
  /\ opCount' = opCount + 1
  /\ call' = [call EXCEPT ![p] =
       [NoCall EXCEPT !.op = "move", !.lkey = k, !.key = held[k].path,
                      !.content = held[k].hash.sha, !.tier = held[k].tier,
                      !.toTier = to]]
  /\ pc' = [pc EXCEPT ![p] = "m_rename"]
  /\ UNCHANGED <<files, dedupMap, savedIndex, held, lastOp, prevOp, faults, epoch>>
  /\ UNCHANGED <<mgrVars, cacheVars, bgVars>>

\* `await fs.rename(fromPath, toPath)` (a failure is only logged), then the
\* loop over the index that repoints the first entry naming the old key.
MoveRename(p) ==
  /\ pc[p] = "m_rename"
  /\ LET c == call[p]
         baseKey == BaseKey(c.key)
         oldStorageKey == StorageKey(c.tier, baseKey)
         newStorageKey == StorageKey(c.toTier, baseKey)
         fromPath == LocalPath(c.tier, baseKey)
         toPath == LocalPath(c.toTier, baseKey)
         i == FirstWithPath(dedupMap, oldStorageKey)
     IN /\ files' = IF fromPath \in DOMAIN files
                    THEN WriteFile(Unlink(files, fromPath), toPath, files[fromPath])
                    ELSE files
        /\ IF i # 0
           THEN /\ dedupMap' = [dedupMap EXCEPT ![i].path = newStorageKey]
                /\ call' = [call EXCEPT ![p].snap = [dedupMap EXCEPT ![i].path = newStorageKey]]
                /\ pc' = [pc EXCEPT ![p] = "m_save"]
           ELSE /\ pc' = [pc EXCEPT ![p] = "m_return"]
                /\ UNCHANGED <<dedupMap, call>>
  /\ UNCHANGED <<savedIndex, held, lastOp, prevOp, opCount, faults, epoch>>
  /\ UNCHANGED <<mgrVars, cacheVars, bgVars>>

\* fs.rename fails on a file that is there (EXDEV, EACCES, EIO): the failure
\* is logged as a warning and the index loop runs all the same.
MoveRenameFail(p) ==
  /\ pc[p] = "m_rename"
  /\ faults < MaxFaults
  /\ faults' = faults + 1
  /\ LET c == call[p]
         baseKey == BaseKey(c.key)
         oldStorageKey == StorageKey(c.tier, baseKey)
         newStorageKey == StorageKey(c.toTier, baseKey)
         fromPath == LocalPath(c.tier, baseKey)
         i == FirstWithPath(dedupMap, oldStorageKey)
     IN /\ fromPath \in DOMAIN files
        /\ IF i # 0
           THEN /\ dedupMap' = [dedupMap EXCEPT ![i].path = newStorageKey]
                /\ call' = [call EXCEPT ![p].snap = [dedupMap EXCEPT ![i].path = newStorageKey]]
                /\ pc' = [pc EXCEPT ![p] = "m_save"]
           ELSE /\ pc' = [pc EXCEPT ![p] = "m_return"]
                /\ UNCHANGED <<dedupMap, call>>
  /\ UNCHANGED <<files, savedIndex, held, lastOp, prevOp, opCount, epoch>>
  /\ UNCHANGED <<mgrVars, cacheVars, bgVars>>

MoveSaved(p) ==
  /\ pc[p] = "m_save"
  /\ savedIndex' = call[p].snap
  /\ pc' = [pc EXCEPT ![p] = "m_return"]
  /\ UNCHANGED <<files, dedupMap, held, call, lastOp, prevOp, opCount, faults, epoch>>
  /\ UNCHANGED <<mgrVars, cacheVars, bgVars>>

\* moveTier returns newStorageKey and the caller records the new location,
\* as autoTierData does with the snapshot's storageTier.
MoveReturn(p) ==
  /\ pc[p] = "m_return"
  /\ LET c == call[p]
         newStorageKey == StorageKey(c.toTier, BaseKey(c.key))
     IN /\ held' = IF c.lkey \in DOMAIN held
                   THEN [held EXCEPT ![c.lkey] =
                          [@ EXCEPT !.path = newStorageKey, !.tier = c.toTier]]
                   ELSE held
        /\ Log([NoOp EXCEPT !.op = "move", !.lkey = c.lkey, !.content = c.content,
                            !.outcome = "ok"])
  /\ pc' = [pc EXCEPT ![p] = call[p].ret]
  /\ call' = [call EXCEPT ![p] = NoCall]
  /\ UNCHANGED <<files, dedupMap, savedIndex, opCount, faults, epoch>>
  /\ UNCHANGED <<mgrVars, cacheVars, bgVars>>

\* ------------------------------------- the cached lists of the managers
\* The cache keys 'profiles:list' and `snapshots:${profileId}`.
ProfilesListKey == <<"profiles", "list">>
SnapshotsKey(pid) == <<"snapshots", pid>>

\* cacheManager.get(key), set(key, value, ttl) and delete(key) on the lists.
MetaHit(mc, key) == key \in DOMAIN mc /\ mc[key].expiresAt > now
MetaSet(mc, key, value, ttl) ==
  [x \in DOMAIN mc \cup {key} |->
     IF x = key THEN [value |-> value, expiresAt |-> now + ttl] ELSE mc[x]]
MetaDelete(mc, key) == [x \in DOMAIN mc \ {key} |-> mc[x]]

\* ------------------------------------------------- StorageManager: quotas
\* SQL NULL, kept apart from every number a counter can take.
Null == -1000
\* An undefined JavaScript value.
Undefined == -2000

\* `a + b` in SQL: NULL if either operand is.
SqlAdd(a, b) == IF a = Null \/ b = Null THEN Null ELSE a + b
\* `a >= b` in SQL, as one of "true", "false", "null".
SqlGe(a, b) == IF a = Null \/ b = Null THEN "null" ELSE IF a >= b THEN "true" ELSE "false"
\* `a >= b` in JavaScript on what the driver returns: null counts as 0.
JsGe(a, b) == (IF a = Null THEN 0 ELSE a) >= (IF b = Null THEN 0 ELSE b)

\* A gate that lets the counter reach one past the limit: `>` for `>=`.
QuotaExceededStrict(quota) == ~JsGe(quota.limitValue, quota.currentValue)

\* checkQuota throws exactly when this holds of the row it read.
QuotaExceeded(quota) == JsGe(quota.currentValue, quota.limitValue)

\* An UPDATE that leaves a row alone once it is marked exceeded.
updateQuotaUsageUnlessExceeded(q, quotaType, delta) ==
  IF q[quotaType].isExceeded = "true"
  THEN q
  ELSE [q EXCEPT ![quotaType] =
          [@ EXCEPT !.currentValue = SqlAdd(@, delta),
                    !.isExceeded = SqlGe(SqlAdd(q[quotaType].currentValue, delta),
                                         q[quotaType].limitValue)]]

\* updateQuotaUsage's single UPDATE statement.
updateQuotaUsage(q, quotaType, delta) ==
  [q EXCEPT ![quotaType] =
     [@ EXCEPT !.currentValue = SqlAdd(@, delta),
               !.isExceeded = SqlGe(SqlAdd(q[quotaType].currentValue, delta),
                                    q[quotaType].limitValue)]]

\* The bytes gzip leaves of a content.
CompressedSize(content) ==
  CHOOSE i \in 1..Len(ContentNames) : ContentNames[i] = content

NoMCall ==
  [op |-> "none", pid |-> "none", sid |-> "none", content |-> "none",
   size |-> 0, quotaType |-> "none", todo |-> {}, row |-> <<>>, data |-> NoFile,
   pass |-> "none", selected |-> {}, attempted |-> {}, list |-> {},
   pre |-> [quotas |-> <<>>, profiles |-> {}, snapshots |-> {}, epoch |-> 0,
            dedupMap |-> <<>>]]
NoM == [NoMCall EXCEPT !.op = "none"] @@ [outcome |-> "none"]

Pre == [quotas |-> quotas, profiles |-> profiles, snapshots |-> snapshots,
        epoch |-> epoch, dedupMap |-> dedupMap]

\* The call of caller p ends with the given outcome.
EndM(p, outcome) ==
  /\ lastM' = mcall[p] @@ [outcome |-> outcome]
  /\ mcall' = [mcall EXCEPT ![p] = NoMCall]
  /\ pc' = [pc EXCEPT ![p] = "idle"]

\* ------------------------------------------- StorageManager.createProfile
CreateProfileCall(p) ==
  /\ pc[p] = "idle"
  /\ opCount < MaxManagerOps
  /\ opCount' = opCount + 1
  /\ mcall' = [mcall EXCEPT ![p] =
       [NoMCall EXCEPT !.op = "createProfile", !.quotaType = "profile_count", !.pre = Pre]]
  /\ pc' = [pc EXCEPT ![p] = "cp_check"]
  /\ UNCHANGED <<profiles, snapshots, quotas, lastM, nextPid, nextSid>>
  /\ UNCHANGED <<files, dedupMap, savedIndex, held, call, lastOp, prevOp, faults, epoch>>
  /\ UNCHANGED <<cacheVars, bgVars>>

\* `await this.checkQuota('profile_count')`, then uuidv4().
CreateProfileCheck(p) ==
  /\ pc[p] = "cp_check"
  /\ IF QuotaExceeded(quotas["profile_count"])
     THEN /\ EndM(p, "QuotaExceeded")
          /\ UNCHANGED nextPid
     ELSE /\ mcall' = [mcall EXCEPT ![p].pid = ProfileIds[nextPid + 1]]
          /\ nextPid' = nextPid + 1
          /\ pc' = [pc EXCEPT ![p] = "cp_insert"]
          /\ UNCHANGED lastM
  /\ UNCHANGED <<profiles, snapshots, quotas, nextSid>>
  /\ UNCHANGED <<files, dedupMap, savedIndex, held, call, lastOp, prevOp, opCount, faults, epoch>>
  /\ UNCHANGED <<cacheVars, bgVars>>

\* `await getDb().insert(profiles)...`
CreateProfileInsert(p) ==
  /\ pc[p] = "cp_insert"
  /\ profiles' = profiles \cup {mcall[p].pid}
  /\ pc' = [pc EXCEPT ![p] = "cp_quota"]
  /\ UNCHANGED <<snapshots, quotas, mcall, lastM, nextPid, nextSid>>
  /\ UNCHANGED <<files, dedupMap, savedIndex, held, call, lastOp, prevOp, opCount, faults, epoch>>
  /\ UNCHANGED <<cacheVars, bgVars>>

\* `await this.updateQuotaUsage('profile_count', 1)`; the profile is then
\* cached under its own key and returned.
CreateProfileQuota(p) ==
  /\ pc[p] = "cp_quota"
  /\ quotas' = updateQuotaUsage(quotas, "profile_count", 1)
  /\ EndM(p, "ok")
  /\ UNCHANGED <<profiles, snapshots, nextPid, nextSid>>
  /\ UNCHANGED <<files, dedupMap, savedIndex, held, call, lastOp, prevOp, opCount, faults, epoch>>
  /\ UNCHANGED <<cacheVars, bgVars>>

\* ------------------------------------------ StorageManager.createSnapshot
CreateSnapshotCall(p, pid, c) ==
  /\ pc[p] = "idle"
  /\ opCount < MaxManagerOps
  /\ opCount' = opCount + 1
  /\ mcall' = [mcall EXCEPT ![p] =
       [NoMCall EXCEPT !.op = "createSnapshot", !.quotaType = "snapshot_count",
                       !.pid = pid, !.content = c, !.pre = Pre]]
  /\ pc' = [pc EXCEPT ![p] = "cs_check"]
  /\ UNCHANGED <<profiles, snapshots, quotas, lastM, nextPid, nextSid>>
  /\ UNCHANGED <<files, dedupMap, savedIndex, held, call, lastOp, prevOp, faults, epoch>>
  /\ UNCHANGED <<cacheVars, bgVars>>

\* `await this.checkQuota('snapshot_count')`
CreateSnapshotCheck(p) ==
  /\ pc[p] = "cs_check"
  /\ IF QuotaExceeded(quotas["snapshot_count"])
     THEN EndM(p, "QuotaExceeded")
     ELSE /\ pc' = [pc EXCEPT ![p] = "cs_profile"]
          /\ UNCHANGED <<mcall, lastM>>
  /\ UNCHANGED <<profiles, snapshots, quotas, nextPid, nextSid>>
  /\ UNCHANGED <<files, dedupMap, savedIndex, held, call, lastOp, prevOp, opCount, faults, epoch>>
  /\ UNCHANGED <<cacheVars, bgVars>>

\* `await this.getProfile(profileId)`, then uuidv4(), the object key and the
\* call of objectStorage.store with tier 'warm', compress, encrypt, dedup.
CreateSnapshotProfile(p) ==
  /\ pc[p] = "cs_profile"
  /\ IF mcall[p].pid \notin profiles
     THEN /\ EndM(p, "ProfileNotFound")
          /\ UNCHANGED <<call, nextSid>>
     ELSE LET sid == SnapshotIds[nextSid + 1]
              objectKey == ObjectKey(mcall[p].pid, sid)
          IN /\ nextSid' = nextSid + 1
             /\ mcall' = [mcall EXCEPT ![p].sid = sid]
             /\ call' = [call EXCEPT ![p] =
                  [NoCall EXCEPT !.op = "store", !.lkey = objectKey, !.key = objectKey,
                                 !.content = mcall[p].content, !.tier = "warm",
                                 !.gz = TRUE, !.enc = TRUE,
                                 !.ret = "cs_insert", !.retFail = "cs_throw"]]
             /\ pc' = [pc EXCEPT ![p] = "s_hash"]
             /\ UNCHANGED lastM
  /\ UNCHANGED <<profiles, snapshots, quotas, nextPid>>
  /\ UNCHANGED <<files, dedupMap, savedIndex, held, lastOp, prevOp, opCount, faults, epoch>>
  /\ UNCHANGED <<cacheVars, bgVars>>

\* objectStorage.store threw: createSnapshot throws with it.
CreateSnapshotThrow(p) ==
  /\ pc[p] = "cs_throw"
  /\ EndM(p, "IOError")
  /\ UNCHANGED <<profiles, snapshots, quotas, nextPid, nextSid>>
  /\ UNCHANGED <<files, dedupMap, savedIndex, held, call, lastOp, prevOp, opCount, faults, epoch>>
  /\ UNCHANGED <<cacheVars, bgVars>>

\* storageResult.compressedSize: a deduplicated result carries none.
ResultCompressedSize(h) ==
  IF h.deduplicated THEN Undefined ELSE CompressedSize(h.hash.sha)

\* `await getDb().insert(snapshots)...`: an undefined compressedSize is left
\* out of the row, which stores NULL.
CreateSnapshotInsert(p) ==
  /\ pc[p] = "cs_insert"
  /\ LET m == mcall[p]
         r == HeldAt(held, ObjectKey(m.pid, m.sid))
         size == ResultCompressedSize(r)
     IN /\ snapshots' = snapshots \cup
              {[id |-> m.sid, profileId |-> m.pid, filePath |-> r.path,
                objectStorageKey |-> ObjectKey(m.pid, m.sid),
                compressedSize |-> IF size = Undefined THEN Null ELSE size,
                deduplicationHash |-> r.hash, storageTier |-> "warm",
                lastAccessedAt |-> now]}
        /\ mcall' = [mcall EXCEPT ![p].size = size]
  /\ pc' = [pc EXCEPT ![p] = "cs_profile_update"]
  /\ UNCHANGED <<profiles, quotas, lastM, nextPid, nextSid>>
  /\ UNCHANGED <<files, dedupMap, savedIndex, held, call, lastOp, prevOp, opCount, faults, epoch>>
  /\ UNCHANGED <<cacheVars, bgVars>>

\* `await getDb().update(profiles).set({ sizeBytes: sql`... + ${size}` })`.
\* With an undefined size the statement either is rejected by the database
\* or runs with NULL in its place.
CreateSnapshotProfileUpdate(p) ==
  /\ pc[p] = "cs_profile_update"
  /\ \/ /\ pc' = [pc EXCEPT ![p] = "cs_quota_count"]
        /\ UNCHANGED <<mcall, lastM>>
     \/ /\ mcall[p].size = Undefined
        /\ EndM(p, "DbError")
  /\ UNCHANGED <<profiles, snapshots, quotas, nextPid, nextSid>>
  /\ UNCHANGED <<files, dedupMap, savedIndex, held, call, lastOp, prevOp, opCount, faults, epoch>>
  /\ UNCHANGED <<cacheVars, bgVars>>

\* `await this.updateQuotaUsage('snapshot_count', 1)`
CreateSnapshotQuotaCount(p) ==
  /\ pc[p] = "cs_quota_count"
  /\ quotas' = updateQuotaUsage(quotas, "snapshot_count", 1)
  /\ pc' = [pc EXCEPT ![p] = "cs_quota_size"]
  /\ UNCHANGED <<profiles, snapshots, mcall, lastM, nextPid, nextSid>>
  /\ UNCHANGED <<files, dedupMap, savedIndex, held, call, lastOp, prevOp, opCount, faults, epoch>>
  /\ UNCHANGED <<cacheVars, bgVars>>

\* `await this.updateQuotaUsage('total_size', storageResult.compressedSize)`,
\* with the same two outcomes for an undefined size; then the list cache
\* entry is dropped and the snapshot returned.
CreateSnapshotQuotaSize(p) ==
  /\ pc[p] = "cs_quota_size"
  /\ \/ /\ quotas' = updateQuotaUsage(quotas, "total_size",
                        IF mcall[p].size = Undefined THEN Null ELSE mcall[p].size)
        /\ metaCache' = MetaDelete(metaCache, ProfilesListKey)
        /\ EndM(p, "ok")
     \/ /\ mcall[p].size = Undefined
        /\ EndM(p, "DbError")
        /\ UNCHANGED <<quotas, metaCache>>
  /\ UNCHANGED <<profiles, snapshots, nextPid, nextSid>>
  /\ UNCHANGED <<files, dedupMap, savedIndex, held, call, lastOp, prevOp, opCount, faults, epoch>>
  /\ UNCHANGED <<cacheVars, probe, backups, archives, autosave>>

\* ------------------------------------------ StorageManager.deleteSnapshot
SnapshotRows(sid) == {r \in snapshots : r.id = sid}

\* deleteSnapshot is done: a direct call returns true, a call made by
\* deleteProfile's loop goes on with the next snapshot of the profile, or
\* with the profile row once there is none.
DeleteSnapshotDone(p) ==
  IF mcall[p].op = "deleteProfile"
  THEN /\ IF mcall[p].todo = {}
          THEN /\ pc' = [pc EXCEPT ![p] = "dp_record"]
               /\ UNCHANGED mcall
          ELSE \E sid \in mcall[p].todo :
                 /\ mcall' = [mcall EXCEPT ![p].sid = sid, ![p].todo = @ \ {sid}]
                 /\ pc' = [pc EXCEPT ![p] = "ds_select"]
       /\ UNCHANGED lastM
  ELSE EndM(p, "ok")

DeleteSnapshotCall(p, sid) ==
  /\ pc[p] = "idle"
  /\ opCount < MaxManagerOps
  /\ opCount' = opCount + 1
  /\ mcall' = [mcall EXCEPT ![p] =
       [NoMCall EXCEPT !.op = "deleteSnapshot", !.quotaType = "snapshot_count",
                       !.sid = sid, !.pre = Pre]]
  /\ pc' = [pc EXCEPT ![p] = "ds_select"]
  /\ UNCHANGED <<profiles, snapshots, quotas, lastM, nextPid, nextSid>>
  /\ UNCHANGED <<files, dedupMap, savedIndex, held, call, lastOp, prevOp, faults, epoch>>
  /\ UNCHANGED <<cacheVars, bgVars>>

\* The select of the snapshot row ('Snapshot not found' without one), then
\* the call of objectStorage.delete(objectStorageKey, storageTier).
DeleteSnapshotSelect(p) ==
  /\ pc[p] = "ds_select"
  /\ IF SnapshotRows(mcall[p].sid) = {}
     THEN /\ EndM(p, "SnapshotNotFound")
          /\ UNCHANGED call
     ELSE LET r == CHOOSE r \in SnapshotRows(mcall[p].sid) : TRUE
          IN /\ mcall' = [mcall EXCEPT ![p].size = r.compressedSize]
             /\ call' = [call EXCEPT ![p] =
                  [NoCall EXCEPT !.op = "delete", !.lkey = r.objectStorageKey,
                                 !.key = r.objectStorageKey, !.tier = r.storageTier,
                                 !.content = r.deduplicationHash.sha,
                                 !.ret = "ds_record", !.retFail = "ds_record"]]
             /\ pc' = [pc EXCEPT ![p] = "d_unlink"]
             /\ UNCHANGED lastM
  /\ UNCHANGED <<profiles, snapshots, quotas, nextPid, nextSid>>
  /\ UNCHANGED <<files, dedupMap, savedIndex, held, lastOp, prevOp, opCount, faults, epoch>>
  /\ UNCHANGED <<cacheVars, bgVars>>

\* `await getDb().delete(snapshots)...`
DeleteSnapshotRecord(p) ==
  /\ pc[p] = "ds_record"
  /\ snapshots' = snapshots \ SnapshotRows(mcall[p].sid)
  /\ pc' = [pc EXCEPT ![p] = "ds_quota_count"]
  /\ UNCHANGED <<profiles, quotas, mcall, lastM, nextPid, nextSid>>
  /\ UNCHANGED <<files, dedupMap, savedIndex, held, call, lastOp, prevOp, opCount, faults, epoch>>
  /\ UNCHANGED <<cacheVars, bgVars>>

\* `await this.updateQuotaUsage('snapshot_count', -1)`; the size follows
\* only `if (snapshot.compressedSize)`.
DeleteSnapshotQuotaCount(p) ==
  /\ pc[p] = "ds_quota_count"
  /\ quotas' = updateQuotaUsage(quotas, "snapshot_count", -1)
  /\ IF mcall[p].size # Null /\ mcall[p].size # 0
     THEN /\ pc' = [pc EXCEPT ![p] = "ds_quota_size"]
          /\ UNCHANGED <<mcall, lastM>>
     ELSE DeleteSnapshotDone(p)
  /\ UNCHANGED <<profiles, snapshots, nextPid, nextSid>>
  /\ UNCHANGED <<files, dedupMap, savedIndex, held, call, lastOp, prevOp, opCount, faults, epoch>>
  /\ UNCHANGED <<cacheVars, bgVars>>

\* `await this.updateQuotaUsage('total_size', -snapshot.compressedSize)`
DeleteSnapshotQuotaSize(p) ==
  /\ pc[p] = "ds_quota_size"
  /\ quotas' = updateQuotaUsage(quotas, "total_size", 0 - mcall[p].size)
  /\ DeleteSnapshotDone(p)
  /\ UNCHANGED <<profiles, snapshots, nextPid, nextSid>>
  /\ UNCHANGED <<files, dedupMap, savedIndex, held, call, lastOp, prevOp, opCount, faults, epoch>>
  /\ UNCHANGED <<cacheVars, bgVars>>

\* ------------------------------------------- StorageManager.deleteProfile
DeleteProfileCall(p, pid) ==
  /\ pc[p] = "idle"
  /\ opCount < MaxManagerOps
  /\ opCount' = opCount + 1
  /\ mcall' = [mcall EXCEPT ![p] =
       [NoMCall EXCEPT !.op = "deleteProfile", !.quotaType = "profile_count",
                       !.pid = pid, !.pre = Pre]]
  /\ pc' = [pc EXCEPT ![p] = "dp_get"]
  /\ UNCHANGED <<profiles, snapshots, quotas, lastM, nextPid, nextSid>>
  /\ UNCHANGED <<files, dedupMap, savedIndex, held, call, lastOp, prevOp, faults, epoch>>
  /\ UNCHANGED <<cacheVars, bgVars>>

\* `await this.getProfile(profileId)`: 'Profile not found' without a row.
DeleteProfileGet(p) ==
  /\ pc[p] = "dp_get"
  /\ IF mcall[p].pid \notin profiles
     THEN EndM(p, "ProfileNotFound")
     ELSE /\ pc' = [pc EXCEPT ![p] = "dp_select"]
          /\ UNCHANGED <<mcall, lastM>>
  /\ UNCHANGED <<profiles, snapshots, quotas, nextPid, nextSid>>
  /\ UNCHANGED <<files, dedupMap, savedIndex, held, call, lastOp, prevOp, opCount, faults, epoch>>
  /\ UNCHANGED <<cacheVars, bgVars>>

\* The select of the profile's snapshots, and the start of the loop that
\* awaits deleteSnapshot for each of them.
DeleteProfileSelect(p) ==
  /\ pc[p] = "dp_select"
  /\ LET todo == {r.id : r \in {x \in snapshots : x.profileId = mcall[p].pid}}
     IN IF todo = {}
        THEN /\ pc' = [pc EXCEPT ![p] = "dp_record"]
             /\ UNCHANGED mcall
        ELSE \E sid \in todo :
               /\ mcall' = [mcall EXCEPT ![p].sid = sid, ![p].todo = todo \ {sid}]
               /\ pc' = [pc EXCEPT ![p] = "ds_select"]
  /\ UNCHANGED <<profiles, snapshots, quotas, lastM, nextPid, nextSid>>
  /\ UNCHANGED <<files, dedupMap, savedIndex, held, call, lastOp, prevOp, opCount, faults, epoch>>
  /\ UNCHANGED <<cacheVars, bgVars>>

\* `await getDb().delete(profiles)...`, then the two cache deletes.
DeleteProfileRecord(p) ==
  /\ pc[p] = "dp_record"
  /\ profiles' = profiles \ {mcall[p].pid}
  /\ metaCache' = MetaDelete(metaCache, ProfilesListKey)
  /\ pc' = [pc EXCEPT ![p] = "dp_quota"]
  /\ UNCHANGED <<snapshots, quotas, mcall, lastM, nextPid, nextSid>>
  /\ UNCHANGED <<files, dedupMap, savedIndex, held, call, lastOp, prevOp, opCount, faults, epoch>>
  /\ UNCHANGED <<cacheVars, probe, backups, archives, autosave>>

\* `await this.updateQuotaUsage('profile_count', -1)`
DeleteProfileQuota(p) ==
  /\ pc[p] = "dp_quota"
  /\ quotas' = updateQuotaUsage(quotas, "profile_count", -1)
  /\ EndM(p, "ok")
  /\ UNCHANGED <<profiles, snapshots, nextPid, nextSid>>
  /\ UNCHANGED <<files, dedupMap, savedIndex, held, call, lastOp, prevOp, opCount, faults, epoch>>
  /\ UNCHANGED <<cacheVars, bgVars>>

\* ------------- StorageManager.listProfiles, EnhancedProfileManager.listSnapshots
ListProfilesCall(p) ==
  /\ pc[p] = "idle"
  /\ opCount < MaxManagerOps
  /\ opCount' = opCount + 1
  /\ mcall' = [mcall EXCEPT ![p] = [NoMCall EXCEPT !.op = "listProfiles", !.pre = Pre]]
  /\ pc' = [pc EXCEPT ![p] = "ls_get"]
  /\ UNCHANGED <<profiles, snapshots, quotas, lastM, nextPid, nextSid>>
  /\ UNCHANGED <<files, dedupMap, savedIndex, held, call, lastOp, prevOp, faults, epoch>>
  /\ UNCHANGED <<cacheVars, bgVars>>

ListSnapshotsCall(p, pid) ==
  /\ pc[p] = "idle"
  /\ opCount < MaxManagerOps
  /\ opCount' = opCount + 1
  /\ mcall' = [mcall EXCEPT ![p] =
       [NoMCall EXCEPT !.op = "listSnapshots", !.pid = pid, !.pre = Pre]]
  /\ pc' = [pc EXCEPT ![p] = "ls_get"]
  /\ UNCHANGED <<profiles, snapshots, quotas, lastM, nextPid, nextSid>>
  /\ UNCHANGED <<files, dedupMap, savedIndex, held, call, lastOp, prevOp, faults, epoch>>
  /\ UNCHANGED <<cacheVars, bgVars>>

ListKey(c) == IF c.op = "listProfiles" THEN ProfilesListKey ELSE SnapshotsKey(c.pid)

\* `const cached = await cacheManager.get(cacheKey); if (cached) return
\* cached;` (a cached list is an array, truthy even when empty).
ListGet(p) ==
  /\ pc[p] = "ls_get"
  /\ IF MetaHit(metaCache, ListKey(mcall[p]))
     THEN /\ lastM' = [mcall[p] EXCEPT !.list = metaCache[ListKey(mcall[p])].value] @@
                      [outcome |-> "ok"]
          /\ mcall' = [mcall EXCEPT ![p] = NoMCall]
          /\ pc' = [pc EXCEPT ![p] = "idle"]
     ELSE /\ pc' = [pc EXCEPT ![p] = "ls_select"]
          /\ UNCHANGED <<mcall, lastM>>
  /\ UNCHANGED <<profiles, snapshots, quotas, nextPid, nextSid>>
  /\ UNCHANGED <<files, dedupMap, savedIndex, held, call, lastOp, prevOp, opCount, faults, epoch>>
  /\ UNCHANGED <<cacheVars, bgVars>>

\* The select of the list from the table.
ListSelect(p) ==
  /\ pc[p] = "ls_select"
  /\ mcall' = [mcall EXCEPT ![p].list =
       IF mcall[p].op = "listProfiles" THEN profiles
       ELSE {r.id : r \in {x \in snapshots : x.profileId = mcall[p].pid}}]
  /\ pc' = [pc EXCEPT ![p] = "ls_set"]
  /\ UNCHANGED <<profiles, snapshots, quotas, lastM, nextPid, nextSid>>
  /\ UNCHANGED <<files, dedupMap, savedIndex, held, call, lastOp, prevOp, opCount, faults, epoch>>
  /\ UNCHANGED <<cacheVars, bgVars>>

\* `await cacheManager.set(cacheKey, list, 300000)`, then the list is
\* returned.
ListSet(p) ==
  /\ pc[p] = "ls_set"
  /\ metaCache' = MetaSet(metaCache, ListKey(mcall[p]), mcall[p].list, ListTTL)
  /\ EndM(p, "ok")
  /\ UNCHANGED <<profiles, snapshots, quotas, nextPid, nextSid>>
  /\ UNCHANGED <<files, dedupMap, savedIndex, held, call, lastOp, prevOp, opCount, faults, epoch>>
  /\ UNCHANGED <<cacheVars, probe, backups, archives, autosave>>

\* --------------------------------------------------- PUT /quotas/:quotaType
\* The route's single UPDATE: limitValue (and warningThreshold,
\* lastCheckedAt) of the row of quotaType; isExceeded is not in the set.
PutQuota(quotaType, limitValue) ==
  /\ opCount < MaxManagerOps
  /\ opCount' = opCount + 1
  /\ quotas' = [quotas EXCEPT ![quotaType].limitValue = limitValue]
  /\ UNCHANGED <<profiles, snapshots, mcall, lastM, nextPid, nextSid>>
  /\ UNCHANGED <<files, dedupMap, savedIndex, held, pc, call, lastOp, prevOp, faults, epoch>>
  /\ UNCHANGED <<cacheVars, bgVars>>

\* ------------------------------------ EnhancedProfileManager.restoreSnapshot
RestoreSnapshotCall(p, sid) ==
  /\ pc[p] = "idle"
  /\ opCount < MaxManagerOps
  /\ opCount' = opCount + 1
  /\ mcall' = [mcall EXCEPT ![p] =
       [NoMCall EXCEPT !.op = "restoreSnapshot", !.sid = sid, !.pre = Pre]]
  /\ pc' = [pc EXCEPT ![p] = "rs_select"]
  /\ UNCHANGED <<profiles, snapshots, quotas, lastM, nextPid, nextSid>>
  /\ UNCHANGED <<files, dedupMap, savedIndex, held, call, lastOp, prevOp, faults, epoch>>
  /\ UNCHANGED <<cacheVars, bgVars>>

\* The select of the snapshot row; 'Snapshot not found' without one.
RestoreSnapshotSelect(p) ==
  /\ pc[p] = "rs_select"
  /\ IF SnapshotRows(mcall[p].sid) = {}
     THEN EndM(p, "SnapshotNotFound")
     ELSE /\ mcall' = [mcall EXCEPT ![p].row =
                         CHOOSE r \in SnapshotRows(mcall[p].sid) : TRUE]
          /\ pc' = [pc EXCEPT ![p] = "rs_access"]
          /\ UNCHANGED lastM
  /\ UNCHANGED <<profiles, snapshots, quotas, nextPid, nextSid>>
  /\ UNCHANGED <<files, dedupMap, savedIndex, held, call, lastOp, prevOp, opCount, faults, epoch>>
  /\ UNCHANGED <<cacheVars, bgVars>>

\* The access-tracking update: lastAccessedAt = new Date() where id matches.
RestoreSnapshotAccess(p) ==
  /\ pc[p] = "rs_access"
  /\ snapshots' = {IF r.id = mcall[p].sid THEN [r EXCEPT !.lastAccessedAt = now] ELSE r :
                     r \in snapshots}
  /\ pc' = [pc EXCEPT ![p] = "rs_retrieve"]
  /\ UNCHANGED <<profiles, quotas, mcall, lastM, nextPid, nextSid>>
  /\ UNCHANGED <<files, dedupMap, savedIndex, held, call, lastOp, prevOp, opCount, faults, epoch>>
  /\ UNCHANGED <<cacheVars, bgVars>>

\* objectStorage.retrieve(objectStorageKey, storageTier, {decompress,
\* decrypt}) with the row read by the select; a throw of retrieve is a throw
\* of restoreSnapshot.
RestoreSnapshotRetrieve(p) ==
  /\ pc[p] = "rs_retrieve"
  /\ LET r == mcall[p].row
         d == ReadResult(files, r.objectStorageKey, r.storageTier, TRUE, TRUE)
     IN lastM' = [mcall[p] EXCEPT !.data = d] @@
                 [outcome |-> IF d = NotFound THEN "NotFound"
                              ELSE IF d = CodecError THEN "CodecError"
                              ELSE "ok"]
  /\ mcall' = [mcall EXCEPT ![p] = NoMCall]
  /\ pc' = [pc EXCEPT ![p] = "idle"]
  /\ UNCHANGED <<profiles, snapshots, quotas, nextPid, nextSid>>
  /\ UNCHANGED <<files, dedupMap, savedIndex, held, call, lastOp, prevOp, opCount, faults, epoch>>
  /\ UNCHANGED <<cacheVars, bgVars>>

\* --------------------------------------------- StorageManager.autoTierData
TierFrom(pass) == IF pass = "hot" THEN "hot" ELSE "warm"
TierTo(pass) == IF pass = "hot" THEN "warm" ELSE "cold"
TierThreshold(pass) == IF pass = "hot" THEN HotThreshold ELSE WarmThreshold

\* lastAccessedAt < NOW() - INTERVAL '<threshold>'
OlderThan(r, threshold) == r.lastAccessedAt < now - threshold

\* The rows of one pass's select.
OldSnapshots(pass) ==
  {r \in snapshots : r.storageTier = TierFrom(pass) /\ OlderThan(r, TierThreshold(pass))}

\* The hourly setInterval callback calls autoTierData(), whatever an earlier
\* run is doing.
AutoTierCall(p) ==
  /\ pc[p] = "idle"
  /\ opCount < MaxManagerOps
  /\ opCount' = opCount + 1
  /\ mcall' = [mcall EXCEPT ![p] =
       [NoMCall EXCEPT !.op = "autoTierData", !.pass = "hot", !.pre = Pre]]
  /\ pc' = [pc EXCEPT ![p] = "at_select"]
  /\ UNCHANGED <<profiles, snapshots, quotas, lastM, nextPid, nextSid>>
  /\ UNCHANGED <<files, dedupMap, savedIndex, held, call, lastOp, prevOp, faults, epoch>>
  /\ UNCHANGED <<cacheVars, bgVars>>

\* `await getDb().select().from(snapshots).where(and(tier, age))` of the
\* pass at hand.
AutoTierSelect(p) ==
  /\ pc[p] = "at_select"
  /\ mcall' = [mcall EXCEPT ![p].todo = OldSnapshots(mcall[p].pass),
                            ![p].selected = @ \cup {r.id : r \in OldSnapshots(mcall[p].pass)}]
  /\ pc' = [pc EXCEPT ![p] = "at_next"]
  /\ UNCHANGED <<profiles, snapshots, quotas, lastM, nextPid, nextSid>>
  /\ UNCHANGED <<files, dedupMap, savedIndex, held, call, lastOp, prevOp, opCount, faults, epoch>>
  /\ UNCHANGED <<cacheVars, bgVars>>

\* The head of a pass's for loop: the next selected row goes to
\* objectStorage.moveTier(objectStorageKey, from, to); after the last row of
\* the hot pass the warm pass selects, after the last row of the warm pass
\* the run is done. The select has no ORDER BY.
AutoTierNext(p) ==
  /\ pc[p] = "at_next"
  /\ IF mcall[p].todo # {}
     THEN \E r \in mcall[p].todo :
            /\ mcall' = [mcall EXCEPT ![p].todo = @ \ {r}, ![p].row = r,
                                      ![p].attempted = @ \cup {r.id}]
            /\ call' = [call EXCEPT ![p] =
                 [NoCall EXCEPT !.op = "move", !.lkey = r.objectStorageKey,
                                !.key = r.objectStorageKey,
                                !.content = r.deduplicationHash.sha,
                                !.tier = TierFrom(mcall[p].pass),
                                !.toTier = TierTo(mcall[p].pass),
                                !.ret = "at_record"]]
            /\ pc' = [pc EXCEPT ![p] = "m_rename"]
            /\ UNCHANGED lastM
     ELSE IF mcall[p].pass = "hot"
     THEN /\ mcall' = [mcall EXCEPT ![p].pass = "warm"]
          /\ pc' = [pc EXCEPT ![p] = "at_select"]
          /\ UNCHANGED <<call, lastM>>
     ELSE /\ EndM(p, "ok")
          /\ UNCHANGED call
  /\ UNCHANGED <<profiles, snapshots, quotas, nextPid, nextSid>>
  /\ UNCHANGED <<files, dedupMap, savedIndex, held, lastOp, prevOp, opCount, faults, epoch>>
  /\ UNCHANGED <<cacheVars, bgVars>>

\* `await getDb().update(snapshots).set({ storageTier: to }).where(id)`
AutoTierRecord(p) ==
  /\ pc[p] = "at_record"
  /\ snapshots' = {IF r.id = mcall[p].row.id
                     THEN [r EXCEPT !.storageTier = TierTo(mcall[p].pass)] ELSE r :
                     r \in snapshots}
  /\ pc' = [pc EXCEPT ![p] = "at_next"]
  /\ UNCHANGED <<profiles, quotas, mcall, lastM, nextPid, nextSid>>
  /\ UNCHANGED <<files, dedupMap, savedIndex, held, call, lastOp, prevOp, opCount, faults, epoch>>
  /\ UNCHANGED <<cacheVars, bgVars>>

\* The update rejects: nothing in the loop catches, autoTierData rejects and
\* the callback's .catch logs 'Auto-tiering failed'.
AutoTierRecordFail(p) ==
  /\ pc[p] = "at_record"
  /\ faults < MaxFaults
  /\ faults' = faults + 1
  /\ EndM(p, "DbError")
  /\ UNCHANGED <<profiles, snapshots, quotas, nextPid, nextSid>>
  /\ UNCHANGED <<files, dedupMap, savedIndex, held, call, lastOp, prevOp, opCount, epoch>>
  /\ UNCHANGED <<cacheVars, bgVars>>

\* --------------------------------------------- StorageManager.createBackup
BackupIds == 1..MaxBackups

\* A storage_backups row, and the streams and the position of one call.
BackupRow(status) == [status |-> status, sizeBytes |-> 0, errorMessage |-> "none"]
NewArchive == [step |-> "insert", archive |-> "open", output |-> "open"]

\* archive.pointer(): the bytes the archive wrote, its end record and one
\* entry for every file under baseDir.
ArchivePointer(fs) == 1 + Cardinality(DOMAIN fs)

\* An 'error' event nobody listens to has been thrown out of the event loop.
Crashed == \E id \in DOMAIN archives : archives[id].output = "broken"

BackupFrame ==
  /\ UNCHANGED <<probe, metaCache, autosave>>
  /\ UNCHANGED <<storeVars, mgrVars, cacheVars>>

\* createBackup(type): uuidv4(), `await fs.mkdir(...)`.
CreateBackupCall(id) ==
  /\ ~Crashed
  /\ id \notin DOMAIN archives
  /\ \A j \in BackupIds : j < id => j \in DOMAIN archives
  /\ archives' = archives @@ (id :> NewArchive)
  /\ UNCHANGED backups
  /\ BackupFrame

\* `await getDb().insert(storageBackups).values({ id, type, status:
\* 'running' })`, then the write stream, the archive, the two handlers,
\* archive.pipe(output) and the call of objectStorage.getStats().
BackupInsert(id) ==
  /\ ~Crashed
  /\ id \in DOMAIN archives
  /\ archives[id].step = "insert"
  /\ backups' = backups @@ (id :> BackupRow("running"))
  /\ archives' = [archives EXCEPT ![id].step = "stats"]
  /\ BackupFrame

\* getStats() resolves (it catches every error of its directory walks);
\* archive.directory(baseDir) and the call of archive.finalize().
BackupStats(id) ==
  /\ ~Crashed
  /\ id \in DOMAIN archives
  /\ archives[id].step = "stats"
  /\ archives[id].archive = "open"
  /\ archives' = [archives EXCEPT ![id].step = "finalize", ![id].archive = "finalizing"]
  /\ UNCHANGED backups
  /\ BackupFrame

\* The archive ends: `await archive.finalize()` resolves and createBackup
\* returns backupId.
ArchiveFinalized(id) ==
  /\ ~Crashed
  /\ id \in DOMAIN archives
  /\ archives[id].step = "finalize"
  /\ archives[id].archive = "finalizing"
  /\ archives' = [archives EXCEPT ![id].step = "returned", ![id].archive = "ended"]
  /\ UNCHANGED backups
  /\ BackupFrame

\* output's 'close' handler: status 'completed' with sizeBytes =
\* archive.pointer().
OutputClose(id) ==
  /\ ~Crashed
  /\ id \in DOMAIN archives
  /\ archives[id].archive = "ended"
  /\ archives[id].output = "open"
  /\ archives' = [archives EXCEPT ![id].output = "closed"]
  /\ backups' = [backups EXCEPT ![id].status = "completed",
                                ![id].sizeBytes = ArchivePointer(files)]
  /\ BackupFrame

\* archive's 'error' handler (an entry of baseDir cannot be read): status
\* 'failed' with the error's message; finalize() rejects, the catch logs
\* and rethrows.
ArchiveError(id) ==
  /\ ~Crashed
  /\ id \in DOMAIN archives
  /\ archives[id].archive = "finalizing"
  /\ archives' = [archives EXCEPT ![id].step = "thrown", ![id].archive = "errored"]
  /\ backups' = [backups EXCEPT ![id].status = "failed", ![id].errorMessage = "archive"]
  /\ BackupFrame

\* The write stream fails (the file cannot be opened or written): output
\* has no 'error' listener, so the event is thrown as an uncaught
\* exception and no handler of any backup runs again.
OutputError(id) ==
  /\ ~Crashed
  /\ id \in DOMAIN backups
  /\ archives[id].output = "open"
  /\ archives' = [archives EXCEPT ![id].output = "broken"]
  /\ UNCHANGED backups
  /\ BackupFrame

\* What the event loop runs when nothing fails.
BackupProgress(id) ==
  \/ BackupInsert(id)
  \/ BackupStats(id)
  \/ ArchiveFinalized(id)
  \/ OutputClose(id)

BackupStep(id) ==
  \/ CreateBackupCall(id)
  \/ BackupProgress(id)
  \/ ArchiveError(id)
  \/ OutputError(id)

\* ---------------------------------------------------------- AutoSaveManager
AutoSaveFrame ==
  /\ UNCHANGED <<probe, backups, archives, metaCache>>
  /\ UNCHANGED <<storeVars, mgrVars, cacheVars>>

\* start() up to its `await this.performAutoSave()`: nothing when already
\* running, else isRunning = true and the call parks at the initial save.
AutoSaveStartBody(a) ==
  IF a.isRunning THEN a
  ELSE [a EXCEPT !.isRunning = TRUE, !.starting = @ + 1]

\* stop(): nothing when not running, else isRunning = false and the timer
\* in autoSaveTimer, if any, is cleared.
AutoSaveStopBody(a) ==
  IF ~a.isRunning THEN a
  ELSE [a EXCEPT !.isRunning = FALSE, !.autoSaveTimer = 0,
                 !.timers = @ \ {a.autoSaveTimer}]

AutoSaveStart ==
  /\ autosave.calls < MaxAutoSaveCalls
  /\ autosave' = [AutoSaveStartBody(autosave) EXCEPT !.calls = @ + 1]
  /\ AutoSaveFrame

\* The initial save of a start() resolves (performAutoSave catches every
\* error): `this.autoSaveTimer = setInterval(...)`.
AutoSaveStartSaved ==
  /\ autosave.starting > 0
  /\ autosave' = [autosave EXCEPT !.starting = @ - 1,
                                  !.autoSaveTimer = autosave.nextTimer,
                                  !.timers = @ \cup {autosave.nextTimer},
                                  !.nextTimer = @ + 1]
  /\ AutoSaveFrame

AutoSaveStop ==
  /\ autosave.calls < MaxAutoSaveCalls
  /\ autosave' = [AutoSaveStopBody(autosave) EXCEPT !.calls = @ + 1]
  /\ AutoSaveFrame

\* updateConfig({ autoSaveInterval }) while running: `await this.stop()`.
UpdateConfigCall ==
  /\ autosave.calls < MaxAutoSaveCalls
  /\ autosave.isRunning
  /\ autosave' = [AutoSaveStopBody(autosave) EXCEPT !.calls = @ + 1, !.restarts = @ + 1]
  /\ AutoSaveFrame

\* ... then `await this.start()`.
UpdateConfigRestart ==
  /\ autosave.restarts > 0
  /\ autosave' = [AutoSaveStartBody(autosave) EXCEPT !.restarts = @ - 1]
  /\ AutoSaveFrame

\* restoreFromHistory(snapshotId) while running: `await this.stop()` and the
\* call of restoreSnapshot.
RestoreFromHistoryCall ==
  /\ autosave.calls < MaxAutoSaveCalls
  /\ autosave.isRunning
  /\ autosave' = [AutoSaveStopBody(autosave) EXCEPT !.calls = @ + 1, !.resuming = @ + 1]
  /\ AutoSaveFrame

\* The restore is done and the 5 s timeout fires: `this.start()`.
RestoreFromHistoryResume ==
  /\ autosave.resuming > 0
  /\ autosave' = [AutoSaveStartBody(autosave) EXCEPT !.resuming = @ - 1]
  /\ AutoSaveFrame

\* restoreSnapshot throws: the catch rethrows and no timeout is set.
RestoreFromHistoryFail ==
  /\ autosave.resuming > 0
  /\ autosave' = [autosave EXCEPT !.resuming = @ - 1]
  /\ AutoSaveFrame

\* ------------------------------------------ AutoSaveManager.performAutoSave
\* The profile initialize() found or created for the auto-saves.
AutoSaveProfile == ProfileIds[1]

\* cleanupOldAutoSaves' `snapshots.slice(this.maxAutoSaves)` of the list
\* sorted by createdAt, newest first: the ids with at least maxAutoSaves
\* newer ones in the list.
CreatedBefore(a, b) ==
  \E i, j \in 1..Len(SnapshotIds) : SnapshotIds[i] = a /\ SnapshotIds[j] = b /\ i < j
SliceOld(list, max) ==
  {a \in list : Cardinality({b \in list : CreatedBefore(a, b)}) >= max}

PerformFrame ==
  /\ UNCHANGED <<profiles, snapshots, quotas, nextPid, nextSid>>
  /\ UNCHANGED <<files, dedupMap, savedIndex, held, call, lastOp, prevOp, opCount, faults, epoch>>
  /\ UNCHANGED <<cacheVars, probe, backups, archives, metaCache>>

\* performAutoSave, from the interval or from start(): the profile
\* directory is there, and saveSnapshot calls
\* storageManager.createSnapshot(autoSaveProfile.id, name, zip).
PerformAutoSaveBegin(p, c) ==
  /\ pc[p] = "idle"
  /\ autosave.phase = "idle"
  /\ autosave.runs < MaxAutoSaveRuns
  /\ AutoSaveProfile \in profiles
  /\ autosave' = [autosave EXCEPT !.phase = "save", !.runs = @ + 1,
                                  !.cleaned = FALSE]
  /\ mcall' = [mcall EXCEPT ![p] =
       [NoMCall EXCEPT !.op = "createSnapshot", !.quotaType = "snapshot_count",
                       !.pid = AutoSaveProfile, !.content = c, !.pre = Pre]]
  /\ pc' = [pc EXCEPT ![p] = "cs_check"]
  /\ UNCHANGED lastM
  /\ PerformFrame

\* saveSnapshot is back. A throw goes to performAutoSave's catch, which
\* returns null; else cleanupOldAutoSaves calls
\* listSnapshots(autoSaveProfile.id).
PerformAutoSaveSaved(p) ==
  /\ pc[p] = "idle"
  /\ autosave.phase = "save"
  /\ IF lastM.outcome = "ok"
     THEN /\ autosave' = [autosave EXCEPT !.phase = "list"]
          /\ mcall' = [mcall EXCEPT ![p] =
               [NoMCall EXCEPT !.op = "listSnapshots", !.pid = AutoSaveProfile,
                               !.pre = Pre]]
          /\ pc' = [pc EXCEPT ![p] = "ls_get"]
     ELSE /\ autosave' = [autosave EXCEPT !.phase = "idle"]
          /\ UNCHANGED <<mcall, pc>>
  /\ UNCHANGED lastM
  /\ PerformFrame

\* The list is back: sort, and `toDelete = snapshots.slice(maxAutoSaves)`
\* when it is longer than maxAutoSaves.
CleanupOldAutoSaves(p) ==
  /\ pc[p] = "idle"
  /\ autosave.phase = "list"
  /\ autosave' = [autosave EXCEPT !.phase = "delete",
                                  !.todo = SliceOld(lastM.list, MaxAutoSaves)]
  /\ UNCHANGED <<mcall, lastM, pc>>
  /\ PerformFrame

\* The head of the loop over toDelete, oldest last:
\* EnhancedProfileManager.deleteSnapshot(snapshot.id) selects the row's
\* profileId and calls storageManager.deleteSnapshot. After the last one
\* performAutoSave returns the snapshot.
CleanupNext(p) ==
  /\ pc[p] = "idle"
  /\ autosave.phase = "delete"
  /\ IF autosave.todo = {}
     THEN /\ autosave' = [autosave EXCEPT !.phase = "idle", !.cleaned = TRUE]
          /\ UNCHANGED <<mcall, pc>>
     ELSE LET sid == CHOOSE a \in autosave.todo :
                       \A b \in autosave.todo : a = b \/ CreatedBefore(b, a)
              rows == {r \in snapshots : r.id = sid}
          IN /\ autosave' = [autosave EXCEPT
                  !.phase = "deleted", !.todo = @ \ {sid},
                  !.profileId = IF rows = {} THEN "none"
                                ELSE (CHOOSE r \in rows : TRUE).profileId]
             /\ mcall' = [mcall EXCEPT ![p] =
                  [NoMCall EXCEPT !.op = "deleteSnapshot",
                                  !.quotaType = "snapshot_count",
                                  !.sid = sid, !.pre = Pre]]
             /\ pc' = [pc EXCEPT ![p] = "ds_select"]
  /\ UNCHANGED lastM
  /\ PerformFrame

\* storageManager.deleteSnapshot is back: EnhancedProfileManager.deleteSnapshot
\* drops the profile's cached snapshot list; a throw skipped that and was
\* caught and logged by the loop.
CleanupDeleted(p) ==
  /\ pc[p] = "idle"
  /\ autosave.phase = "deleted"
  /\ autosave' = [autosave EXCEPT !.phase = "delete"]
  /\ metaCache' = IF lastM.outcome = "ok" /\ autosave.profileId # "none"
                  THEN MetaDelete(metaCache, SnapshotsKey(autosave.profileId))
                  ELSE metaCache
  /\ UNCHANGED <<mcall, lastM, pc>>
  /\ UNCHANGED <<profiles, snapshots, quotas, nextPid, nextSid>>
  /\ UNCHANGED <<files, dedupMap, savedIndex, held, call, lastOp, prevOp, opCount, faults, epoch>>
  /\ UNCHANGED <<cacheVars, probe, backups, archives>>

\* ------------------------------------------------------------ CacheManager
\* get's `return null`.
Absent == "null"

\* The ttlMs arguments of set: none given (null), or a number of ticks.
CacheTTLs == {Null} \cup 0..MaxTTL
CacheKeys == {KeyNames[i] : i \in 1..NumKeys}

\* `ttlMs || this.defaultTTL`
EffectiveTTL(ttlMs) == IF ttlMs = Null \/ ttlMs = 0 THEN DefaultTTL ELSE ttlMs

\* Buffer.byteLength(JSON.stringify(value))
ByteLength(value) == CHOOSE i \in 1..Len(ContentNames) : ContentNames[i] = value

\* this.memoryCache, a Map in insertion order.
MemHas(mem, key) == \E i \in 1..Len(mem) : mem[i].key = key
MemGet(mem, key) == mem[CHOOSE i \in 1..Len(mem) : mem[i].key = key]
MemSet(mem, key, e) ==
  IF MemHas(mem, key)
  THEN [i \in 1..Len(mem) |-> IF mem[i].key = key THEN e ELSE mem[i]]
  ELSE Append(mem, e)
MemDelete(mem, key) == SelectSeq(mem, LAMBDA e : e.key # key)

\* The cache_entries table, as a map from the keys that have a row.
RowDelete(db, key) == [x \in DOMAIN db \ {key} |-> db[x]]
RowUpsert(db, key, value, expiresAt, sizeBytes) ==
  [x \in DOMAIN db \cup {key} |->
     IF x # key THEN db[x]
     ELSE IF key \in DOMAIN db
          THEN [db[key] EXCEPT !.value = value, !.expiresAt = expiresAt,
                               !.sizeBytes = sizeBytes]
          ELSE [value |-> value, expiresAt |-> expiresAt, hitCount |-> 0,
                sizeBytes |-> sizeBytes]]

\* An eviction loop that drops the entry with the greatest expiresAt.
RECURSIVE evictLatestFirst(_, _)
evictLatestFirst(mem, st) ==
  IF st.totalMemoryBytes > MaxMemoryBytes /\ Len(mem) > 0
  THEN LET latest == CHOOSE i \in 1..Len(mem) :
                       \A j \in 1..Len(mem) :
                         \/ mem[i].expiresAt > mem[j].expiresAt
                         \/ mem[i].expiresAt = mem[j].expiresAt /\ i <= j
       IN evictLatestFirst(RemoveAt(mem, latest),
                           [st EXCEPT !.totalMemoryBytes = @ - mem[latest].sizeBytes,
                                      !.evictions = @ + 1])
  ELSE [mem |-> mem, stats |-> st]

\* evictIfNeeded: while over budget, drop the first entry with the least
\* expiresAt.
RECURSIVE evictIfNeeded(_, _)
evictIfNeeded(mem, st) ==
  IF st.totalMemoryBytes > MaxMemoryBytes /\ Len(mem) > 0
  THEN LET oldest == CHOOSE i \in 1..Len(mem) :
                       \A j \in 1..Len(mem) :
                         \/ mem[i].expiresAt < mem[j].expiresAt
                         \/ mem[i].expiresAt = mem[j].expiresAt /\ i <= j
       IN evictIfNeeded(RemoveAt(mem, oldest),
                        [st EXCEPT !.totalMemoryBytes = @ - mem[oldest].sizeBytes,
                                   !.evictions = @ + 1])
  ELSE [mem |-> mem, stats |-> st]

NoSet == [value |-> "none", t0 |-> 0, ttl |-> 0]
NoCCall ==
  [op |-> "none", key |-> "none", value |-> "none", expiresAt |-> 0,
   sizeBytes |-> 0, at |-> 0, set |-> NoSet, evicted |-> 0]
NoC ==
  [op |-> "none", key |-> "none", result |-> "none", at |-> 0, retAt |-> 0,
   set |-> NoSet, undisturbed |-> FALSE, via |-> "none"]

\* The last set of each key that no later set or delete has replaced.
LiveAt(lv, key) == IF key \in DOMAIN lv THEN lv[key] ELSE NoSet

\* The call of caller p returns result.
EndC(p, result) ==
  /\ lastC' = [op |-> ccall[p].op, key |-> ccall[p].key, result |-> result,
               at |-> ccall[p].at, retAt |-> now, set |-> ccall[p].set,
               undisturbed |-> (LiveAt(live, ccall[p].key) = ccall[p].set),
               via |-> pc[p]]
  /\ ccall' = [ccall EXCEPT ![p] = NoCCall]
  /\ pc' = [pc EXCEPT ![p] = "idle"]

\* A database statement throws; every caller in CacheManager catches it.
DbFault ==
  /\ faults < MaxFaults
  /\ faults' = faults + 1
  /\ UNCHANGED dbCache

\* -------------------------------------------------------- CacheManager.set
\* Up to the await: expiresAt, the memory entry, the byte count, eviction.
CacheSetCall(p, key, value, ttlMs) ==
  /\ pc[p] = "idle"
  /\ cacheOps < MaxCacheOps
  /\ cacheOps' = cacheOps + 1
  /\ LET expiresAt == now + EffectiveTTL(ttlMs)
         sizeBytes == ByteLength(value)
         e == [key |-> key, value |-> value, expiresAt |-> expiresAt,
               sizeBytes |-> sizeBytes]
         r == evictIfNeeded(MemSet(memoryCache, key, e),
                            [stats EXCEPT !.totalMemoryBytes = @ + sizeBytes])
     IN /\ memoryCache' = r.mem
        /\ stats' = r.stats
        /\ ccall' = [ccall EXCEPT ![p] =
             [NoCCall EXCEPT !.op = "set", !.key = key, !.value = value,
                             !.expiresAt = expiresAt, !.sizeBytes = sizeBytes,
                             !.at = now,
                             !.evicted = r.stats.evictions - stats.evictions]]
        /\ live' = [x \in DOMAIN live \cup {key} |->
             IF x = key
             THEN [value |-> value, t0 |-> now,
                   ttl |-> IF ttlMs = Null THEN DefaultTTL ELSE ttlMs]
             ELSE live[x]]
  /\ pc' = [pc EXCEPT ![p] = "cache_set_db"]
  /\ UNCHANGED <<now, dbCache, lastC, sweep, faults>>
  /\ UNCHANGED <<files, dedupMap, savedIndex, held, call, lastOp, prevOp, opCount, epoch>>
  /\ UNCHANGED <<mgrVars, bgVars>>

\* The upsert into cache_entries; set returns true either way.
CacheSetDb(p) ==
  /\ pc[p] = "cache_set_db"
  /\ \/ /\ dbCache' = RowUpsert(dbCache, ccall[p].key, ccall[p].value,
                                ccall[p].expiresAt, ccall[p].sizeBytes)
        /\ UNCHANGED faults
     \/ DbFault
  /\ EndC(p, "true")
  /\ UNCHANGED <<now, memoryCache, stats, live, sweep, cacheOps>>
  /\ UNCHANGED <<files, dedupMap, savedIndex, held, call, lastOp, prevOp, opCount, epoch>>
  /\ UNCHANGED <<mgrVars, bgVars>>

\* -------------------------------------------------------- CacheManager.get
\* The memory layer: a live entry is a hit, an expired one is dropped.
CacheGetCall(p, key) ==
  /\ pc[p] = "idle"
  /\ cacheOps < MaxCacheOps
  /\ cacheOps' = cacheOps + 1
  /\ LET c == [NoCCall EXCEPT !.op = "get", !.key = key, !.at = now,
                              !.set = LiveAt(live, key)]
     IN IF MemHas(memoryCache, key)
        THEN IF MemGet(memoryCache, key).expiresAt > now
             THEN /\ stats' = [stats EXCEPT !.hits = @ + 1]
                  /\ ccall' = [ccall EXCEPT ![p] =
                       [c EXCEPT !.value = MemGet(memoryCache, key).value]]
                  /\ pc' = [pc EXCEPT ![p] = "cache_get_inc"]
                  /\ UNCHANGED memoryCache
             ELSE /\ memoryCache' = MemDelete(memoryCache, key)
                  /\ ccall' = [ccall EXCEPT ![p] = c]
                  /\ pc' = [pc EXCEPT ![p] = "cache_get_db"]
                  /\ UNCHANGED stats
        ELSE /\ ccall' = [ccall EXCEPT ![p] = c]
             /\ pc' = [pc EXCEPT ![p] = "cache_get_db"]
             /\ UNCHANGED <<memoryCache, stats>>
  /\ UNCHANGED <<now, dbCache, lastC, live, sweep, faults>>
  /\ UNCHANGED <<files, dedupMap, savedIndex, held, call, lastOp, prevOp, opCount, epoch>>
  /\ UNCHANGED <<mgrVars, bgVars>>

\* The select from cache_entries: a live row is a hit and is promoted, an
\* expired row goes on to be deleted, no row (or a failed select) is a miss.
CacheGetDb(p) ==
  /\ pc[p] = "cache_get_db"
  /\ LET key == ccall[p].key
     IN \/ /\ key \in DOMAIN dbCache
           /\ dbCache[key].expiresAt > now
           /\ stats' = [stats EXCEPT !.hits = @ + 1]
           /\ memoryCache' = MemSet(memoryCache, key,
                [key |-> key, value |-> dbCache[key].value,
                 expiresAt |-> dbCache[key].expiresAt,
                 sizeBytes |-> dbCache[key].sizeBytes])
           /\ ccall' = [ccall EXCEPT ![p].value = dbCache[key].value]
           /\ pc' = [pc EXCEPT ![p] = "cache_get_inc"]
           /\ UNCHANGED <<lastC, faults>>
        \/ /\ key \in DOMAIN dbCache
           /\ dbCache[key].expiresAt <= now
           /\ pc' = [pc EXCEPT ![p] = "cache_get_expired"]
           /\ UNCHANGED <<memoryCache, stats, ccall, lastC, faults>>
        \/ /\ key \notin DOMAIN dbCache
           /\ stats' = [stats EXCEPT !.misses = @ + 1]
           /\ EndC(p, Absent)
           /\ UNCHANGED <<memoryCache, faults>>
        \/ /\ faults < MaxFaults
           /\ faults' = faults + 1
           /\ stats' = [stats EXCEPT !.misses = @ + 1]
           /\ EndC(p, Absent)
           /\ UNCHANGED memoryCache
  /\ UNCHANGED <<now, dbCache, live, sweep, cacheOps>>
  /\ UNCHANGED <<files, dedupMap, savedIndex, held, call, lastOp, prevOp, opCount, epoch>>
  /\ UNCHANGED <<mgrVars, bgVars>>

\* A get that drops the expired row and returns without counting a miss.
CacheGetExpiredUncounted(p) ==
  /\ pc[p] = "cache_get_expired"
  /\ \/ /\ dbCache' = RowDelete(dbCache, ccall[p].key)
        /\ UNCHANGED faults
     \/ DbFault
  /\ EndC(p, Absent)
  /\ UNCHANGED <<now, memoryCache, stats, live, sweep, cacheOps>>
  /\ UNCHANGED <<files, dedupMap, savedIndex, held, call, lastOp, prevOp, opCount, epoch>>
  /\ UNCHANGED <<mgrVars, bgVars>>

\* The delete of the expired row, then the miss.
CacheGetExpired(p) ==
  /\ pc[p] = "cache_get_expired"
  /\ \/ /\ dbCache' = RowDelete(dbCache, ccall[p].key)
        /\ UNCHANGED faults
     \/ DbFault
  /\ stats' = [stats EXCEPT !.misses = @ + 1]
  /\ EndC(p, Absent)
  /\ UNCHANGED <<now, memoryCache, live, sweep, cacheOps>>
  /\ UNCHANGED <<files, dedupMap, savedIndex, held, call, lastOp, prevOp, opCount, epoch>>
  /\ UNCHANGED <<mgrVars, bgVars>>

\* incrementHitCount, then the value is returned.
CacheGetInc(p) ==
  /\ pc[p] = "cache_get_inc"
  /\ \/ /\ dbCache' = IF ccall[p].key \in DOMAIN dbCache
                      THEN [dbCache EXCEPT ![ccall[p].key].hitCount = @ + 1]
                      ELSE dbCache
        /\ UNCHANGED faults
     \/ DbFault
  /\ EndC(p, ccall[p].value)
  /\ UNCHANGED <<now, memoryCache, stats, live, sweep, cacheOps>>
  /\ UNCHANGED <<files, dedupMap, savedIndex, held, call, lastOp, prevOp, opCount, epoch>>
  /\ UNCHANGED <<mgrVars, bgVars>>

\* ----------------------------------------------------- CacheManager.delete
CacheDeleteCall(p, key) ==
  /\ pc[p] = "idle"
  /\ cacheOps < MaxCacheOps
  /\ cacheOps' = cacheOps + 1
  /\ memoryCache' = MemDelete(memoryCache, key)
  /\ ccall' = [ccall EXCEPT ![p] =
       [NoCCall EXCEPT !.op = "delete", !.key = key, !.at = now]]
  /\ live' = [x \in DOMAIN live \ {key} |-> live[x]]
  /\ pc' = [pc EXCEPT ![p] = "cache_del_db"]
  /\ UNCHANGED <<now, dbCache, stats, lastC, sweep, faults>>
  /\ UNCHANGED <<files, dedupMap, savedIndex, held, call, lastOp, prevOp, opCount, epoch>>
  /\ UNCHANGED <<mgrVars, bgVars>>

CacheDeleteDb(p) ==
  /\ pc[p] = "cache_del_db"
  /\ \/ /\ dbCache' = RowDelete(dbCache, ccall[p].key)
        /\ UNCHANGED faults
     \/ DbFault
  /\ EndC(p, "true")
  /\ UNCHANGED <<now, memoryCache, stats, live, sweep, cacheOps>>
  /\ UNCHANGED <<files, dedupMap, savedIndex, held, call, lastOp, prevOp, opCount, epoch>>
  /\ UNCHANGED <<mgrVars, bgVars>>

\* ------------------------------------------------------ CacheManager.clear
\* Up to the await: the Map is emptied and the byte count reset.
CacheClearCall(p) ==
  /\ pc[p] = "idle"
  /\ cacheOps < MaxCacheOps
  /\ cacheOps' = cacheOps + 1
  /\ memoryCache' = <<>>
  /\ stats' = [stats EXCEPT !.totalMemoryBytes = 0]
  /\ ccall' = [ccall EXCEPT ![p] = [NoCCall EXCEPT !.op = "clear", !.at = now]]
  /\ live' = [x \in {} |-> NoSet]
  /\ pc' = [pc EXCEPT ![p] = "cache_clear_db"]
  /\ UNCHANGED <<now, dbCache, lastC, sweep, faults>>
  /\ UNCHANGED <<files, dedupMap, savedIndex, held, call, lastOp, prevOp, opCount, epoch>>
  /\ UNCHANGED <<mgrVars, bgVars>>

\* The delete of every row of cache_entries; clear returns nothing.
CacheClearDb(p) ==
  /\ pc[p] = "cache_clear_db"
  /\ \/ /\ dbCache' = [x \in {} |-> NoSet]
        /\ UNCHANGED faults
     \/ DbFault
  /\ EndC(p, "undefined")
  /\ UNCHANGED <<now, memoryCache, stats, live, sweep, cacheOps>>
  /\ UNCHANGED <<files, dedupMap, savedIndex, held, call, lastOp, prevOp, opCount, epoch>>
  /\ UNCHANGED <<mgrVars, bgVars>>

\* ---------------------------------------------- CacheManager.cleanupExpired
\* The interval timer fires: the memory layer is swept with `expiresAt < now`.
CleanupMemory ==
  /\ sweep = "idle"
  /\ LET expired == {i \in 1..Len(memoryCache) : memoryCache[i].expiresAt < now}
         Sum[S \in SUBSET expired] ==
           IF S = {} THEN 0
           ELSE LET i == CHOOSE i \in S : TRUE
                IN memoryCache[i].sizeBytes + Sum[S \ {i}]
     IN /\ expired # {} \/ \E k \in DOMAIN dbCache : dbCache[k].expiresAt < now
        /\ memoryCache' = SelectSeq(memoryCache, LAMBDA e : ~(e.expiresAt < now))
        /\ stats' = [stats EXCEPT !.totalMemoryBytes = @ - Sum[expired]]
  /\ sweep' = "db"
  /\ UNCHANGED <<now, dbCache, ccall, lastC, live, cacheOps, faults, pc>>
  /\ UNCHANGED <<files, dedupMap, savedIndex, held, call, lastOp, prevOp, opCount, epoch>>
  /\ UNCHANGED <<mgrVars, bgVars>>

\* The sweep's delete from cache_entries, with the time of this step.
CleanupDb ==
  /\ sweep = "db"
  /\ \/ /\ dbCache' = [x \in {k \in DOMAIN dbCache : ~(dbCache[k].expiresAt < now)} |->
                         dbCache[x]]
        /\ UNCHANGED faults
     \/ DbFault
  /\ sweep' = "idle"
  /\ UNCHANGED <<now, memoryCache, stats, ccall, lastC, live, cacheOps, pc>>
  /\ UNCHANGED <<files, dedupMap, savedIndex, held, call, lastOp, prevOp, opCount, epoch>>
  /\ UNCHANGED <<mgrVars, bgVars>>

\* Date.now() moves on.
Advance(limit) ==
  /\ now < limit
  /\ now' = now + 1
  /\ UNCHANGED <<memoryCache, dbCache, stats, ccall, lastC, live, sweep, cacheOps, faults, pc>>
  /\ UNCHANGED <<files, dedupMap, savedIndex, held, call, lastOp, prevOp, opCount, epoch>>
  /\ UNCHANGED <<mgrVars, bgVars>>

Tick == Advance(MaxTime)

\* NOW() moves on, over the span the warm threshold needs.
TierTick == Advance(MaxTierTime)

\* ------------------------------------------- the sizes in store's result
\* data.length after gzip, for a payload of the given size in which deflate
\* finds the given number of redundant bytes.
gzipLength(size, redundancy) == GzipOverhead + size - redundancy

\* originalSize, compressedSize and compressionRatio as store computes them;
\* the ratio 1 - compressedSize / originalSize is kept as the fraction
\* (originalSize - compressedSize) / originalSize.
StoreSizes(size, redundancy, compress) ==
  LET originalSize == size
      compressedSize == IF compress THEN gzipLength(size, redundancy) ELSE originalSize
  IN [originalSize |-> originalSize,
      compressedSize |-> compressedSize,
      compressionRatio |->
        IF originalSize > 0
        THEN [num |-> originalSize - compressedSize, den |-> originalSize]
        ELSE [num |-> 0, den |-> 1]]

\* store runs on the payload and returns.
ProbeStore ==
  /\ probe.result = <<>>
  /\ probe' = [probe EXCEPT !.result = StoreSizes(probe.size, probe.redundancy, probe.compress)]
  /\ UNCHANGED <<backups, archives, metaCache, autosave>>
  /\ UNCHANGED <<storeVars, mgrVars, cacheVars>>

\* ------------------------------------------------------------ specification
StoreInit ==
  /\ files = [q \in {} |-> NoFile]
  /\ dedupMap = <<>>
  /\ savedIndex = <<>>
  /\ held = [k \in {} |-> NoHandle]
  /\ pc = [p \in Procs |-> "idle"]
  /\ call = [p \in Procs |-> NoCall]
  /\ lastOp = NoOp
  /\ prevOp = NoOp
  /\ opCount = 0
  /\ faults = 0
  /\ epoch = 0

\* initializeQuotas on an empty database: the three default rows, with the
\* limits scaled down.
QuotaRow(limit) == [currentValue |-> 0, limitValue |-> limit, isExceeded |-> "false"]
ManagerInit ==
  /\ profiles = {}
  /\ snapshots = {}
  /\ quotas = [t \in QuotaTypes |->
       CASE t = "total_size" -> QuotaRow(SizeLimit)
         [] t = "profile_count" -> QuotaRow(ProfileLimit)
         [] t = "snapshot_count" -> QuotaRow(SnapshotLimit)]
  /\ mcall = [p \in Procs |-> NoMCall]
  /\ lastM = NoM
  /\ nextPid = 0
  /\ nextSid = 0

\* The steps of the calls that change the store; a new store call draws its
\* tier and codec options from the given sets.
MutatorStep(p, tierSet, flagSet) ==
  \/ \E k \in Keys, c \in Contents, t \in tierSet, gz \in flagSet, enc \in flagSet :
       StoreCall(p, k, c, t, gz, enc)
  \/ StoreCheck(p)
  \/ StoreWriteBegin(p)
  \/ StoreWriteEnd(p)
  \/ StoreWriteFail(p)
  \/ StoreSaved(p)
  \/ StoreSaveFail(p)
  \/ \E k \in Keys : DeleteCall(p, k)
  \/ DeleteUnlink(p)
  \/ DeleteUnlinkFail(p)
  \/ DeleteSaved(p)
  \/ \E k \in Keys, to \in Tiers : MoveCall(p, k, to)
  \/ MoveRename(p)
  \/ MoveRenameFail(p)
  \/ MoveSaved(p)
  \/ MoveReturn(p)

ReaderStep(p) ==
  \/ \E k \in Keys : RetrieveCall(p, k)
  \/ RetrieveRead(p)

\* The steps of objectStorage.store when createSnapshot runs it.
InnerStoreStep(p) ==
  \/ StoreCheck(p)
  \/ StoreWriteBegin(p)
  \/ StoreWriteEnd(p)
  \/ StoreWriteFail(p)
  \/ StoreSaved(p)
  \/ StoreSaveFail(p)

ManagerStep(p) ==
  \/ CreateProfileCall(p)
  \/ CreateProfileCheck(p)
  \/ CreateProfileInsert(p)
  \/ CreateProfileQuota(p)
  \/ \E pid \in profiles \cup {"missing"}, c \in Contents :
       CreateSnapshotCall(p, pid, c)
  \/ CreateSnapshotCheck(p)
  \/ CreateSnapshotProfile(p)
  \/ CreateSnapshotThrow(p)
  \/ CreateSnapshotInsert(p)
  \/ CreateSnapshotProfileUpdate(p)
  \/ CreateSnapshotQuotaCount(p)
  \/ CreateSnapshotQuotaSize(p)
  \/ InnerStoreStep(p)

CacheCall(p) ==
  \/ \E key \in CacheKeys, value \in Contents, ttlMs \in CacheTTLs :
       CacheSetCall(p, key, value, ttlMs)
  \/ CacheSetDb(p)
  \/ \E key \in CacheKeys : CacheGetCall(p, key)
  \/ CacheGetDb(p)
  \/ CacheGetExpired(p)
  \/ CacheGetInc(p)
  \/ \E key \in CacheKeys : CacheDeleteCall(p, key)
  \/ CacheDeleteDb(p)
  \/ CacheClearCall(p)
  \/ CacheClearDb(p)

CacheTimer ==
  \/ CleanupMemory
  \/ CleanupDb
  \/ Tick

vars == <<storeVars, mgrVars, cacheVars, bgVars>>

\* A CacheManager constructed and initialized over an empty cache_entries
\* table.
CacheInit ==
  /\ now = 1
  /\ memoryCache = <<>>
  /\ dbCache = [k \in {} |-> NoSet]
  /\ stats = [hits |-> 0, misses |-> 0, evictions |-> 0, totalMemoryBytes |-> 0]
  /\ ccall = [p \in Procs |-> NoCCall]
  /\ lastC = NoC
  /\ live = [k \in {} |-> NoSet]
  /\ sweep = "idle"
  /\ cacheOps = 0

\* The AutoSaveManager as constructed: no timer, not running, nothing
\* parked.
NoAutoSave ==
  [isRunning |-> FALSE, autoSaveTimer |-> 0, timers |-> {}, nextTimer |-> 1,
   starting |-> 0, restarts |-> 0, resuming |-> 0, calls |-> 0,
   phase |-> "idle", todo |-> {}, profileId |-> "none", runs |-> 0,
   cleaned |-> FALSE]

\* No store probed, an empty storage_backups table.
NoProbe == [size |-> 0, redundancy |-> 0, compress |-> FALSE, result |-> <<>>]
BackupInit ==
  /\ backups = <<>>
  /\ archives = <<>>
  /\ metaCache = <<>>
  /\ autosave = NoAutoSave

Init == StoreInit /\ ManagerInit /\ CacheInit /\ BackupInit /\ probe = NoProbe

\* One store of a payload of any size up to MaxSize, of any redundancy, with
\* and without compression.
ProbeInit ==
  /\ StoreInit /\ ManagerInit /\ CacheInit /\ BackupInit
  /\ probe \in {[NoProbe EXCEPT !.size = n, !.redundancy = r, !.compress = c] :
                  n \in 0..MaxSize, r \in 0..MaxSize, c \in BOOLEAN}
  /\ probe.redundancy <= probe.size
NextSizes == ProbeStore
SpecSizes == ProbeInit /\ [][NextSizes]_vars

\* One caller of the CacheManager that awaits every call, the interval timer
\* and the clock.
NextCache == CacheCall(1) \/ CacheTimer
SpecCache == Init /\ [][NextCache]_vars

\* Concurrent request handlers calling get, set (with the default ttl) and
\* delete, within one tick of the clock.
ConcurrentCacheCall(p) ==
  \/ \E key \in CacheKeys, value \in Contents : CacheSetCall(p, key, value, Null)
  \/ CacheSetDb(p)
  \/ \E key \in CacheKeys : CacheGetCall(p, key)
  \/ CacheGetDb(p)
  \/ CacheGetInc(p)
  \/ \E key \in CacheKeys : CacheDeleteCall(p, key)
  \/ CacheDeleteDb(p)

NextCacheConc == \E p \in Procs : ConcurrentCacheCall(p)
SpecCacheConc == Init /\ [][NextCacheConc]_vars

\* The steps of deleteSnapshot and deleteProfile, and of objectStorage.delete
\* when deleteSnapshot runs it: the key it passes is the object key without
\* its tier prefix, which no index entry has as its value, so the loop over
\* the index never comes to the save.
ManagerDeleteStep(p) ==
  \/ \E sid \in {r.id : r \in snapshots} \cup {"missing"} : DeleteSnapshotCall(p, sid)
  \/ DeleteSnapshotSelect(p)
  \/ DeleteSnapshotRecord(p)
  \/ DeleteSnapshotQuotaCount(p)
  \/ DeleteSnapshotQuotaSize(p)
  \/ \E pid \in profiles \cup {"missing"} : DeleteProfileCall(p, pid)
  \/ DeleteProfileGet(p)
  \/ DeleteProfileSelect(p)
  \/ DeleteProfileRecord(p)
  \/ DeleteProfileQuota(p)
  \/ DeleteUnlink(p)

ManagerReadStep(p) ==
  \/ \E sid \in {r.id : r \in snapshots} \cup {"missing"} : RestoreSnapshotCall(p, sid)
  \/ RestoreSnapshotSelect(p)
  \/ RestoreSnapshotAccess(p)
  \/ RestoreSnapshotRetrieve(p)

\* The steps of an auto-tiering run, and of objectStorage.moveTier when the
\* run calls it: the key it passes is the object key without its tier
\* prefix, so the rename finds no file and the index loop no entry.
TieringStep(p) ==
  \/ AutoTierCall(p)
  \/ AutoTierSelect(p)
  \/ AutoTierNext(p)
  \/ AutoTierRecord(p)
  \/ AutoTierRecordFail(p)
  \/ MoveRename(p)
  \/ MoveReturn(p)

\* The StorageManager alone: one request at a time (creating, deleting and
\* restoring), concurrent creating requests, and the hourly tiering runs
\* beside creating and restoring requests.
NextManagerSeq == ManagerStep(1) \/ ManagerDeleteStep(1) \/ ManagerReadStep(1)
NextManagerConc == \E p \in Procs : ManagerStep(p)

SpecManagerSeq == Init /\ [][NextManagerSeq]_vars
SpecManagerConc == Init /\ [][NextManagerConc]_vars

\* One request at a time, the quota update route among them.
NextQuota ==
  \/ ManagerStep(1)
  \/ ManagerDeleteStep(1)
  \/ \E t \in QuotaTypes, v \in 1..SizeLimit : PutQuota(t, v)
SpecQuota == Init /\ [][NextQuota]_vars

\* Creating requests one at a time beside concurrent deleting requests.
NextManagerDeleteConc ==
  \/ ManagerStep(1)
  \/ \E p \in Procs : ManagerDeleteStep(p)
SpecManagerDeleteConc == Init /\ [][NextManagerDeleteConc]_vars

\* Creating and listing requests, one at a time, while the clock runs.
ManagerListStep(p) ==
  \/ ListProfilesCall(p)
  \/ \E pid \in profiles : ListSnapshotsCall(p, pid)
  \/ ListGet(p)
  \/ ListSelect(p)
  \/ ListSet(p)

NextManagerList == ManagerStep(1) \/ ManagerListStep(1) \/ Tick
SpecManagerList == Init /\ [][NextManagerList]_vars

\* The AutoSaveManager's control calls, in any interleaving.
NextAutoSaveTimer ==
  \/ AutoSaveStart
  \/ AutoSaveStartSaved
  \/ AutoSaveStop
  \/ UpdateConfigCall
  \/ UpdateConfigRestart
  \/ RestoreFromHistoryCall
  \/ RestoreFromHistoryResume
  \/ RestoreFromHistoryFail
SpecAutoSaveTimer == Init /\ [][NextAutoSaveTimer]_vars

\* initialize()'s createProfile, then auto-saves one after another with the
\* steps of the createSnapshot, listSnapshots and deleteSnapshot they call,
\* while the clock runs.
PerformStep(p) ==
  \/ \E c \in Contents : PerformAutoSaveBegin(p, c)
  \/ PerformAutoSaveSaved(p)
  \/ CleanupOldAutoSaves(p)
  \/ CleanupNext(p)
  \/ CleanupDeleted(p)
  \/ CreateSnapshotCheck(p)
  \/ CreateSnapshotProfile(p)
  \/ CreateSnapshotThrow(p)
  \/ CreateSnapshotInsert(p)
  \/ CreateSnapshotProfileUpdate(p)
  \/ CreateSnapshotQuotaCount(p)
  \/ CreateSnapshotQuotaSize(p)
  \/ InnerStoreStep(p)
  \/ ListGet(p)
  \/ ListSelect(p)
  \/ ListSet(p)
  \/ DeleteSnapshotSelect(p)
  \/ DeleteSnapshotRecord(p)
  \/ DeleteSnapshotQuotaCount(p)
  \/ DeleteSnapshotQuotaSize(p)
  \/ DeleteUnlink(p)

NextAutoSave ==
  \/ CreateProfileCall(1)
  \/ CreateProfileCheck(1)
  \/ CreateProfileInsert(1)
  \/ CreateProfileQuota(1)
  \/ PerformStep(1)
  \/ Tick
SpecAutoSave == Init /\ [][NextAutoSave]_vars

NextTiering ==
  \/ ManagerStep(1)
  \/ \E p \in Procs : TieringStep(p) \/ ManagerReadStep(p)
  \/ TierTick
SpecTiering == Init /\ [][NextTiering]_vars

\* Backups beside the store's requests; the event loop runs every handler
\* that is due.
NextBackup ==
  \/ \E id \in BackupIds : BackupStep(id)
  \/ MutatorStep(1, {"warm"}, {TRUE})
SpecBackup ==
  /\ Init
  /\ [][NextBackup]_vars
  /\ \A id \in BackupIds : WF_vars(BackupProgress(id))

\* One caller that awaits every call before making the next, over the whole
\* option space of store.  A retrieve changes nothing in the store, so here
\* its result is read off the state with ReadVia.
NextSeq == MutatorStep(1, Tiers, BOOLEAN)

\* Concurrent request handlers.  The only caller of store in the server is
\* createSnapshot, which passes tier 'warm', compress and encrypt.
NextConc == \E p \in Procs : MutatorStep(p, {"warm"}, {TRUE}) \/ ReaderStep(p)

\* One caller that stores and deletes by location, a delete being free to
\* name any location of the store.
LocationStep(p) ==
  \/ \E k \in Keys, c \in Contents, t \in Tiers : StoreCall(p, k, c, t, FALSE, FALSE)
  \/ InnerStoreStep(p)
  \/ \E k \in Keys, t \in Tiers : DeleteLocationCall(p, StorageKey(t, k), t)
  \/ DeleteUnlink(p)
  \/ DeleteUnlinkFail(p)
  \/ DeleteSaved(p)

NextLocation == LocationStep(1)

SpecStoreSeq == Init /\ [][NextSeq]_vars
SpecStoreLocation == Init /\ [][NextLocation]_vars
SpecStoreConc == Init /\ [][NextConc]_vars

\* ------------------------------------------------------------------ claims
Idle == \A p \in Procs : pc[p] = "idle"

\* The files in the tier directories that hold the content c.
PhysicalCopies(c) == {q \in DOMAIN files : files[q].content = c}

\* The file a held location resolves to: retrieve's localCachePath.
ResolvedPath(h) == LocalPath(h.tier, BaseKey(h.path))

\* Two stores in a row of one content under two different keys.
StoredTwice ==
  /\ Idle
  /\ prevOp.op = "store" /\ prevOp.outcome = "ok"
  /\ lastOp.op = "store" /\ lastOp.outcome = "ok"
  /\ prevOp.content = lastOp.content
  /\ prevOp.lkey # lastOp.lkey

\* C1 (dedup idempotence): after store(A, c) followed by store(B, c), the
\* second call returned deduplicated = true and storedSize = 0 and wrote no
\* bytes, and reading through the location returned for A and through the
\* location returned for B both give back c.
C1_DedupIdempotence ==
  StoredTwice =>
    /\ lastOp.dedup
    /\ lastOp.storedSize = 0
    /\ ~lastOp.wrote
    /\ ReadVia(files, HeldAt(held, prevOp.lkey)) = Plain(lastOp.content)
    /\ ReadVia(files, HeldAt(held, lastOp.lkey)) = Plain(lastOp.content)

\* C2 (round trip): whatever was put before, reading the location a store
\* returned, with the decode options that mirror its put options, gives back
\* the payload that was stored.
C2_RoundTrip ==
  (Idle /\ lastOp.op = "store" /\ lastOp.outcome = "ok") =>
    ReadVia(files, HeldAt(held, lastOp.lkey)) = Plain(lastOp.content)

\* C3 (reference-aware delete): one content stored under A and B is one
\* physical object; deleting A leaves every other key that shared the object
\* readable; once no key shares it, the delete removes the object and its
\* index entry.
C3_ReferenceAwareDelete ==
  /\ StoredTwice => Cardinality(PhysicalCopies(lastOp.content)) = 1
  /\ (Idle /\ lastOp.op = "delete") =>
       /\ \A b \in lastOp.shared :
            b \in DOMAIN held => ReadVia(files, held[b]) = Plain(held[b].hash.sha)
       /\ (lastOp.shared = {} /\ prevOp.op = "delete" /\ prevOp.content = lastOp.content
             /\ prevOp.shared = {lastOp.lkey}) =>
            /\ PhysicalCopies(lastOp.content) = {}
            /\ ~MapHas(dedupMap, computeHash(lastOp.content))

\* C4 (single physical copy): between calls, every content has at most one
\* file across the three tiers, and every key holding a content resolves to
\* the file that holds it.
C4_SinglePhysicalCopy ==
  Idle =>
    /\ \A c \in Contents : Cardinality(PhysicalCopies(c)) <= 1
    /\ \A k \in Keys :
         k \in DOMAIN held => ResolvedPath(held[k]) \in PhysicalCopies(held[k].hash.sha)

\* The quota row a StorageManager call found when it was made.
RowBefore(m) == m.pre.quotas[m.quotaType]

C6_QuotaRaceFree ==
  /\ Cardinality(profiles) <= ProfileLimit
  /\ Cardinality(snapshots) <= SnapshotLimit

\* C7 (concurrent puts of one new content): never are two store calls for
\* the same hash both past the index lookup with "not a duplicate".
C7_ConcurrentPutsSerialized ==
  \A p, q \in Procs :
    (p # q /\ pc[p] \in {"s_write", "s_writing", "s_save"}
           /\ pc[q] \in {"s_write", "s_writing", "s_save"})
      => call[p].hash # call[q].hash

\* C8 (tier move transparency): a retrieve of an object that was readable
\* when the call was made, and that nothing but tier moves has touched
\* since, returns the object's content and never "not found".
C8_TierMoveTransparency ==
  (lastOp.op = "retrieve" /\ lastOp.fresh /\ lastOp.quiet) =>
    lastOp.data = Plain(lastOp.content)

\* C10 (no partial object): after a store that failed, no file in a tier
\* directory is partly written, and no retrieve returns anything but whole
\* content or "not found".
C10_NoPartialObject ==
  /\ (Idle /\ lastOp.op = "store" /\ lastOp.outcome = "IOError") =>
       \A q \in DOMAIN files : files[q].complete
  /\ lastOp.op = "retrieve" =>
       \/ lastOp.outcome = "NotFound"
       \/ lastOp.outcome = "ok" /\ lastOp.data.complete

\* C9 (cache TTL): a get of a key whose last set (value v, ttl T, at t0) has
\* not been replaced or deleted returns v if it returns before t0 + T, and
\* returns absent if it was called at or after t0 + T.
C9_CacheTTL ==
  (lastC.op = "get" /\ lastC.set # NoSet /\ lastC.undisturbed) =>
    /\ lastC.retAt < lastC.set.t0 + lastC.set.ttl => lastC.result = lastC.set.value
    /\ lastC.at >= lastC.set.t0 + lastC.set.ttl => lastC.result = Absent

\* SUM(compressed_size) over a set of snapshot rows: NULLs are left out.
RECURSIVE SumCompressedSize(_)
SumCompressedSize(rows) ==
  IF rows = {} THEN 0
  ELSE LET r == CHOOSE r \in rows : TRUE
       IN (IF r.compressedSize = Null THEN 0 ELSE r.compressedSize)
            + SumCompressedSize(rows \ {r})

\* C11 (quota deltas are atomic with the operation): between calls, also
\* after a call that failed part-way, profile_count counts the profile rows,
\* snapshot_count counts the snapshot rows and total_size is the sum of the
\* snapshot rows' compressedSize.
C11_QuotaDeltasAtomic ==
  Idle =>
    /\ quotas["profile_count"].currentValue = Cardinality(profiles)
    /\ quotas["snapshot_count"].currentValue = Cardinality(snapshots)
    /\ quotas["total_size"].currentValue = SumCompressedSize(snapshots)

\* C12 (byte quota checked before any write): a createSnapshot for an
\* existing profile made while total_size is at or over its limit fails with QuotaExceeded, having
\* written no file, changed no index entry and inserted no snapshot row.
C12_ByteQuotaBeforeWrite ==
  (/\ Idle
   /\ lastM.op = "createSnapshot"
   /\ lastM.pid \in lastM.pre.profiles
   /\ lastM.pre.quotas["total_size"].currentValue # Null
   /\ lastM.pre.quotas["total_size"].currentValue
        >= lastM.pre.quotas["total_size"].limitValue) =>
    /\ lastM.outcome = "QuotaExceeded"
    /\ epoch = lastM.pre.epoch
    /\ dedupMap = lastM.pre.dedupMap
    /\ snapshots = lastM.pre.snapshots

\* The snapshot rows a delete call found when it was made: the one named by
\* deleteSnapshot, those of the profile named by deleteProfile.
RowsBefore(m) ==
  IF m.op = "deleteSnapshot"
  THEN {r \in m.pre.snapshots : r.id = m.sid}
  ELSE {r \in m.pre.snapshots : r.profileId = m.pid}

\* C20 (deletion is never blocked by quota state): a deleteSnapshot of an
\* existing snapshot and a deleteProfile of an existing profile succeed
\* whatever the quota rows hold, remove the rows, and lower snapshot_count by
\* the number of snapshot rows removed, total_size by their compressedSize
\* and, for deleteProfile, profile_count by one; isExceeded is recomputed.
C20_DeleteNotBlockedByQuota ==
  (/\ Idle
   /\ \/ lastM.op = "deleteSnapshot" /\ RowsBefore(lastM) # {}
      \/ lastM.op = "deleteProfile" /\ lastM.pid \in lastM.pre.profiles) =>
    LET before == lastM.pre.quotas
        gone == RowsBefore(lastM)
        count == SqlAdd(before["snapshot_count"].currentValue, 0 - Cardinality(gone))
        size == SqlAdd(before["total_size"].currentValue, 0 - SumCompressedSize(gone))
        profs == IF lastM.op = "deleteProfile"
                 THEN SqlAdd(before["profile_count"].currentValue, -1)
                 ELSE before["profile_count"].currentValue
    IN /\ lastM.outcome = "ok"
       /\ snapshots = lastM.pre.snapshots \ gone
       /\ profiles = lastM.pre.profiles \ (IF lastM.op = "deleteProfile" THEN {lastM.pid} ELSE {})
       /\ quotas["snapshot_count"].currentValue = count
       /\ quotas["total_size"].currentValue = size
       /\ quotas["profile_count"].currentValue = profs
       /\ gone # {} =>
            quotas["snapshot_count"].isExceeded =
              SqlGe(count, before["snapshot_count"].limitValue)
       /\ lastM.op = "deleteProfile" =>
            quotas["profile_count"].isExceeded =
              SqlGe(profs, before["profile_count"].limitValue)

\* A snapshot was deleted while snapshot_count was at its limit and marked
\* exceeded.
C20_Witness ==
  /\ Idle
  /\ lastM.op = "deleteSnapshot"
  /\ lastM.outcome = "ok"
  /\ lastM.pre.quotas["snapshot_count"].isExceeded = "true"
  /\ lastM.pre.quotas["snapshot_count"].currentValue
       >= lastM.pre.quotas["snapshot_count"].limitValue


\* C13 (index/disk consistency): between operations, every location recorded
\* in the dedup index exists as a file in the tier directory it names.
C13_IndexDiskConsistency ==
  Idle =>
    \A i \in 1..Len(dedupMap) :
      LocalPath(Head(dedupMap[i].path), Tail(dedupMap[i].path)) \in DOMAIN files

\* The entry set writes for the arguments recorded in the call c.
SetEntry(c) ==
  [key |-> c.key, value |-> c.value, expiresAt |-> c.expiresAt,
   sizeBytes |-> c.sizeBytes]

\* The entries of the memory layer mem that are gone from the layer after.
Evicted(mem, after) == {i \in 1..Len(mem) : ~MemHas(after, mem[i].key)}

RECURSIVE SumSizeBytes(_, _)
SumSizeBytes(mem, S) ==
  IF S = {} THEN 0
  ELSE LET i == CHOOSE i \in S : TRUE
       IN mem[i].sizeBytes + SumSizeBytes(mem, S \ {i})

\* C14 (set writes both layers and always succeeds): when set(key, value,
\* ttl) returns, it returns true and both the memory layer and the durable
\* layer hold key with that value and expiresAt = (time of the call) + ttl,
\* the default standing in only when no ttl was given (a ttl of 0 is used as
\* given).
C14_SetWritesBothLayers ==
  [][\A p \in Procs :
       (pc[p] = "cache_set_db" /\ pc'[p] = "idle") =>
         LET key == ccall[p].key
             expiresAt == live[key].t0 + live[key].ttl
         IN /\ lastC'.result = "true"
            /\ MemHas(memoryCache', key)
            /\ MemGet(memoryCache', key).value = ccall[p].value
            /\ MemGet(memoryCache', key).expiresAt = expiresAt
            /\ key \in DOMAIN dbCache'
            /\ dbCache'[key].value = ccall[p].value
            /\ dbCache'[key].expiresAt = expiresAt]_vars

\* C15 (delete and clear remove from both layers): when delete(key) returns,
\* key is in neither layer and the entries of the other keys are what they
\* were; when clear() returns, both layers are empty.
C15_DeleteAndClearBothLayers ==
  [][\A p \in Procs :
       /\ (pc[p] = "idle" /\ pc'[p] = "cache_del_db") =>
            /\ ~MemHas(memoryCache', ccall'[p].key)
            /\ SelectSeq(memoryCache', LAMBDA e : e.key # ccall'[p].key)
                 = SelectSeq(memoryCache, LAMBDA e : e.key # ccall'[p].key)
            /\ dbCache' = dbCache
       /\ (pc[p] = "cache_del_db" /\ pc'[p] = "idle") =>
            /\ ~MemHas(memoryCache', ccall[p].key)
            /\ memoryCache' = memoryCache
            /\ ccall[p].key \notin DOMAIN dbCache'
            /\ \A k \in CacheKeys \ {ccall[p].key} :
                 /\ (k \in DOMAIN dbCache') = (k \in DOMAIN dbCache)
                 /\ k \in DOMAIN dbCache => dbCache'[k] = dbCache[k]
       /\ (pc[p] = "cache_clear_db" /\ pc'[p] = "idle") =>
            /\ memoryCache' = <<>>
            /\ DOMAIN dbCache' = {}]_vars

C17_GetOrderAndPromotion ==
  [][\A p \in Procs :
       /\ (pc[p] = "idle" /\ pc'[p] = "cache_get_inc") =>
            /\ ccall'[p].value = MemGet(memoryCache, ccall'[p].key).value
            /\ stats'.hits = stats.hits + 1
       /\ (pc[p] = "cache_get_db" /\ pc'[p] = "cache_get_inc") =>
            LET key == ccall[p].key
                row == dbCache[key]
                e == [key |-> key, value |-> row.value, expiresAt |-> row.expiresAt,
                      sizeBytes |-> row.sizeBytes]
                r == evictIfNeeded(MemSet(memoryCache, key, e),
                       [stats EXCEPT !.hits = @ + 1,
                                     !.totalMemoryBytes = @ + row.sizeBytes])
            IN /\ ccall'[p].value = row.value
               /\ memoryCache' = r.mem
               /\ stats' = r.stats
       /\ (pc[p] = "cache_get_expired" /\ pc'[p] = "idle") =>
            ccall[p].key \notin DOMAIN dbCache']_vars

\* C18 (delete is idempotent): a delete of a location whose file is not in
\* the addressed tier returns success at once and leaves the tier directories
\* and the dedup index as they were.  The second of two deletes of one
\* location is such a delete, so this is also "twice is the same as once".
C18_DeleteIdempotent ==
  [][\A p \in Procs :
       (/\ pc[p] = "d_unlink"
        /\ pc'[p] # "d_unlink"
        /\ LocalPath(call[p].tier, BaseKey(call[p].key)) \notin DOMAIN files) =>
         /\ files' = files
         /\ dedupMap' = dedupMap
         /\ savedIndex' = savedIndex
         /\ pc'[p] = call[p].ret
         /\ lastOp'.op = "delete" /\ lastOp'.outcome = "ok"]_vars

\* C19 (moveTier effect): the step of moveTier that renames and updates the
\* index, taken for an object that is in fromTier, leaves its bytes unchanged
\* under the same key in toTier and nothing at the old path, repoints every
\* index entry that named the old location, and changes no other file and no
\* other index entry.
C19_MoveTierEffect ==
  [][\A p \in Procs :
       LET c == call[p]
           baseKey == BaseKey(c.key)
           oldStorageKey == StorageKey(c.tier, baseKey)
           newStorageKey == StorageKey(c.toTier, baseKey)
           fromPath == LocalPath(c.tier, baseKey)
           toPath == LocalPath(c.toTier, baseKey)
       IN (/\ pc[p] = "m_rename"
           /\ pc'[p] # "m_rename"
           /\ fromPath \in DOMAIN files) =>
            /\ toPath \in DOMAIN files'
            /\ files'[toPath] = files[fromPath]
            /\ fromPath \notin DOMAIN files'
            /\ \A q \in (DOMAIN files \cup DOMAIN files') \ {fromPath, toPath} :
                 /\ q \in DOMAIN files /\ q \in DOMAIN files'
                 /\ files'[q] = files[q]
            /\ dedupMap' = [i \in 1..Len(dedupMap) |->
                              IF dedupMap[i].path = oldStorageKey
                              THEN [dedupMap[i] EXCEPT !.path = newStorageKey]
                              ELSE dedupMap[i]]]_vars

\* C25 (compression ratio bounds): the compressionRatio store returns lies
\* between 0 and 1, which for a non-empty input is 0 <= compressedSize <=
\* originalSize, and it is 0 for an empty input.
C25_CompressionRatioBounds ==
  probe.result # <<>> =>
    LET r == probe.result
    IN /\ 0 <= r.compressionRatio.num
       /\ r.compressionRatio.num <= r.compressionRatio.den
       /\ r.originalSize > 0 =>
            (0 <= r.compressedSize /\ r.compressedSize <= r.originalSize)
       /\ r.originalSize = 0 => r.compressionRatio.num = 0

\* The key has an unexpired entry in the memory layer / in the durable layer.
MemoryUnexpired(key) ==
  MemHas(memoryCache, key) /\ MemGet(memoryCache, key).expiresAt > now
DurableUnexpired(key) ==
  key \in DOMAIN dbCache /\ dbCache[key].expiresAt > now

\* The counters one step of a get leaves: a hit, a miss, or neither.
CountsHit == stats' = [stats EXCEPT !.hits = @ + 1]
CountsMiss == stats' = [stats EXCEPT !.misses = @ + 1]

\* What every path through get does to the counters, step by step: the steps
\* that return a value count one hit, the steps that return null count one
\* miss, the steps in between count nothing.  Every path has exactly one
\* counting step.
GetCountsOnce(p) ==
  /\ (pc[p] = "idle" /\ pc'[p] = "cache_get_inc") => CountsHit
  /\ (pc[p] = "idle" /\ pc'[p] = "cache_get_db") =>
       (stats' = stats /\ ~MemHas(memoryCache', ccall'[p].key))
  /\ (pc[p] = "cache_get_db" /\ pc'[p] = "cache_get_inc") => CountsHit
  /\ (pc[p] = "cache_get_db" /\ pc'[p] = "cache_get_expired") => stats' = stats
  /\ (pc[p] = "cache_get_db" /\ pc'[p] = "idle") => CountsMiss
  /\ (pc[p] = "cache_get_expired" /\ pc'[p] = "idle") => CountsMiss
  /\ (pc[p] = "cache_get_inc" /\ pc'[p] = "idle") => stats' = stats

C26_MemoryNeverStale ==
  \A key \in CacheKeys :
    MemHas(memoryCache, key) =>
      /\ key \in DOMAIN live
      /\ MemGet(memoryCache, key).value = live[key].value

\* C28 (a corrupt index is surfaced): a store whose hash the index maps to
\* a location with no file behind it ends with a corruption error, not as a
\* duplicate, and leaves the index entry in place.
C28_CorruptIndexSurfaced ==
  [][\A p \in Procs :
       LET h == computeHash(call[p].content)
       IN (/\ pc[p] = "s_hash"
           /\ pc'[p] # "s_hash"
           /\ MapHas(dedupMap, h)
           /\ LocalPath(Head(MapGet(dedupMap, h)), Tail(MapGet(dedupMap, h)))
                \notin DOMAIN files) =>
            /\ lastOp'.op = "store"
            /\ lastOp'.outcome = "CorruptIndex"
            /\ dedupMap' = dedupMap]_vars

\* C29 (index persistence): once every mutating operation has completed,
\* dedup_index.json as last written equals the index in memory.
C29_IndexPersisted ==
  Idle => savedIndex = dedupMap

\* The snapshot rows that own the object they name: store wrote it for them
\* and no other row shares it.
OwnRows(rows) ==
  {r \in rows :
     /\ r.filePath = StorageKey(r.storageTier, r.objectStorageKey)
     /\ \A o \in rows : o.filePath = r.filePath => o = r}

\* C30 (key-to-path consistency): store, retrieve and delete resolve the key
\* the snapshot row records to one path, so that restoreSnapshot of a
\* snapshot createSnapshot stored returns its content, and after
\* deleteSnapshot of such a snapshot neither the file store wrote for it nor
\* an index entry naming it is left.
C30_KeyToPathConsistency ==
  /\ (/\ Idle
      /\ lastM.op = "restoreSnapshot"
      /\ lastM.row \in OwnRows(lastM.pre.snapshots)) =>
       /\ lastM.outcome = "ok"
       /\ lastM.data = Plain(lastM.row.deduplicationHash.sha)
  /\ (/\ Idle
      /\ lastM.op = "deleteSnapshot"
      /\ lastM.outcome = "ok") =>
       \A r \in OwnRows(lastM.pre.snapshots) :
         r.id = lastM.sid =>
           /\ LocalPath(r.storageTier, r.objectStorageKey) \notin DOMAIN files
           /\ \A i \in 1..Len(dedupMap) : dedupMap[i].path # r.filePath

\* The snapshot a tiering run has in hand is, as the table has it now, in
\* the tier the pass demotes from and older than that tier's threshold.
DueForDemotion(p) ==
  \A r \in snapshots :
    r.id = mcall'[p].row.id =>
      /\ r.storageTier = TierFrom(mcall'[p].pass)
      /\ OlderThan(r, TierThreshold(mcall'[p].pass))

\* C21 (demotion-only, age-gated tiering): whenever a tiering run hands a
\* snapshot to moveTier or writes its new tier, the snapshot is at that
\* moment in the tier the pass demotes from (hot for the move to warm, warm
\* for the move to cold, never cold) and its last access is older than that
\* tier's threshold.
C21_DemotionOnlyAgeGated ==
  [][\A p \in Procs :
       (\/ pc[p] = "at_next" /\ pc'[p] = "m_rename"
        \/ pc[p] = "at_record" /\ pc'[p] = "at_next") => DueForDemotion(p)]_vars

\* C22 (tiering fails soft): a tiering run that has ended, with or without
\* an error on one snapshot, has handed every snapshot its selects returned
\* to moveTier.
C22_TieringFailsSoft ==
  lastM.op = "autoTierData" => lastM.selected \subseteq lastM.attempted

\* C23 (non-overlapping background runs): at most one run of the
\* auto-tiering worker is in progress at any time.
C23_NonOverlappingRuns ==
  Cardinality({p \in Procs : mcall[p].op = "autoTierData"}) <= 1

\* The backup has come to an end its record shows.
BackupSettled(id) ==
  /\ id \in DOMAIN backups
  /\ \/ backups[id].status = "completed" /\ backups[id].sizeBytes > 0
     \/ backups[id].status = "failed" /\ backups[id].errorMessage # "none"

\* C24 (backup status lifecycle): every backup record has a status in
\* {pending, running, completed, failed} and, whatever the archive and the
\* output stream do, eventually reaches completed with its size recorded or
\* failed with its error recorded.
C24_BackupStatusLifecycle ==
  /\ [](\A id \in DOMAIN backups :
          backups[id].status \in {"pending", "running", "completed", "failed"})
  /\ \A id \in BackupIds : (id \in DOMAIN backups) ~> BackupSettled(id)

\* C31 (index entries name the right content): between operations, for every
\* entry hash -> location of the dedup index whose file is there in whole,
\* the content of that file is the content the hash is the digest of.
C31_IndexNamesContent ==
  Idle =>
    \A i \in 1..Len(dedupMap) :
      LET q == LocalPath(Head(dedupMap[i].path), Tail(dedupMap[i].path))
      IN (q \in DOMAIN files /\ files[q].complete) =>
           computeHash(files[q].content) = dedupMap[i].hash

\* C32 (tier record matches physical tier): after an auto-tiering run, for
\* every snapshot whose bytes store wrote under the snapshot's own key, the
\* tier directory the row's storageTier names holds those bytes.
C32_TierRecordMatchesFile ==
  lastM.op = "autoTierData" =>
    \A r \in snapshots :
      r.filePath = StorageKey("warm", r.objectStorageKey) =>
        LocalPath(r.storageTier, r.objectStorageKey) \in DOMAIN files

\* C33 (cache byte accounting): in every state the tracked
\* totalMemoryBytes is the sum of sizeBytes over the entries in the memory
\* layer.
C33_CacheByteAccounting ==
  stats.totalMemoryBytes = SumSizeBytes(memoryCache, 1..Len(memoryCache))

\* C34 (a deleted key is not resurrected): once every call has completed,
\* no database operation having failed, a key whose last set was followed by
\* a delete is not in the memory layer, whichever way a concurrent get of
\* the key interleaved with the delete.
C34_DeletedKeyNotResurrected ==
  (Idle /\ faults = 0) =>
    \A key \in CacheKeys : key \notin DOMAIN live => ~MemHas(memoryCache, key)

\* C35 (isExceeded mirrors the counters): in every state, isExceeded of a
\* quota is true exactly when its currentValue >= limitValue.
C35_IsExceededMirrorsCounters ==
  \A t \in QuotaTypes :
    (quotas[t].isExceeded = "true") <=> (quotas[t].currentValue >= quotas[t].limitValue)

\* C36 (quota counters never go negative): once interleaved createProfile,
\* createSnapshot, deleteSnapshot and deleteProfile calls have all completed,
\* two concurrent deletes of one snapshot or profile among them, no quota's
\* currentValue is a number below 0.
C36_QuotaCountersNonNegative ==
  Idle =>
    \A t \in QuotaTypes :
      quotas[t].currentValue # Null => quotas[t].currentValue >= 0

\* C37 (metadata cache coherence): a listProfiles that returns after every
\* earlier call has returned contains every profile there is, and a
\* listSnapshots of a profile every snapshot of that profile, whether or not
\* a list was cached earlier.
C37_ListsContainNewRows ==
  Idle =>
    /\ lastM.op = "listProfiles" => profiles \subseteq lastM.list
    /\ lastM.op = "listSnapshots" =>
         {r.id : r \in {x \in snapshots : x.profileId = lastM.pid}} \subseteq lastM.list

\* Every start, stop, updateConfig and restoreFromHistory has completed.
AutoSaveQuiet ==
  autosave.starting = 0 /\ autosave.restarts = 0 /\ autosave.resuming = 0

\* C38 (auto-save timer matches the running flag): at most one periodic
\* auto-save timer is active at any time, and once every call has completed
\* a timer is active exactly when isRunning is true.
C38_TimerMatchesRunningFlag ==
  /\ Cardinality(autosave.timers) <= 1
  /\ AutoSaveQuiet => (autosave.isRunning <=> autosave.timers # {})

\* C39 (auto-save retention bound): after every completed performAutoSave
\* that saved its snapshot and ran its cleanup, nothing having failed, the
\* auto-save profile holds at most maxAutoSaves snapshots.
C39_RetentionBound ==
  (autosave.phase = "idle" /\ autosave.cleaned /\ pc[1] = "idle" /\ faults = 0) =>
    Cardinality({r \in snapshots : r.profileId = AutoSaveProfile}) <= MaxAutoSaves

====
